---------------------------- MODULE Spec2Model ----------------------------
(***************************************************************************)
(* Operations console core of the admin panel (admin_panel/app.js and      *)
(* admin_panel/charts.js): the auto-refresh timer registry, the loading    *)
(* indicator, the API wrapper, the debounced filter handlers, the          *)
(* connectivity monitor, the chart registry and the section/refresh        *)
(* coordination of AdminPanel.                                             *)
(***************************************************************************)
EXTENDS Integers, Sequences, FiniteSets, TLC

VARIABLES
    autoRefresh,     \* AutoRefresh: [intervals : key -> interval id, enabled]
    timers,          \* browser interval table: every setInterval made by the
                     \* registry, in creation order (id = index), with its
                     \* key, callback, period and whether it is still active
    lastFired,       \* the callback run by the most recent interval tick
    loading,         \* LoadingManager: [loadingStates : set of keys, display]
    currentSection,  \* AdminPanel.currentSection
    hidden,          \* document.hidden
    unloaded,        \* the page got beforeunload and is being discarded
    inflight,        \* requests awaiting their network response
    nextReq,         \* number of the next request issued
    shown,           \* per view: the request whose response is rendered
    notifications,   \* notification elements currently in the document
    charts,          \* ChartManager.charts: canvas id -> chart instance
    instances,       \* every Chart constructed, in order (instance = index),
                     \* with its canvas and whether it was destroyed
    now,             \* time, in timer ticks
    wait,            \* the delay given to Utils.debounce
    debouncers,      \* per debounced handler: its closure variable `timeout`
                     \* and the timeouts it has pending in the browser
    edits,           \* per debounced handler: input events received, calls
                     \* of the debounced function made, events answered by
                     \* the last call, time of the last event
    isOnline,        \* ConnectionMonitor.isOnline
    navOnline,       \* navigator.onLine
    params,          \* per request issued: what it asks the server for
    currentPage,     \* AdminPanel.currentPage: page number per list view
    table,           \* the tickets table: status shown per ticket row
    badge,           \* text of the open-ticket badge
    pager,           \* the tickets pager: page info and disabled buttons
    modal,           \* the ticket detail modal and its update form
    store,           \* server: the tickets
    dispatched,      \* server: notification dispatch attempts per ticket
    replies,         \* server: the response produced for an update request
    listing,         \* a list query walked page by page: the list on the
                     \* server, the page size and the pages received
    dateRange,       \* AdminPanel.filters.dateRange: [start, end]
    stats,           \* the dashboard stats: total searches displayed
    ranking          \* the top partners as displayed: the rows of the
                     \* table and the bars of the partner chart

timerVars == << autoRefresh, timers, lastFired >>
requestVars == << inflight, nextReq, loading, shown, notifications, params,
                 currentPage, dateRange >>
ticketView == << table, badge, pager, modal >>
dashboardView == << stats, ranking >>
panelVars == << currentSection, hidden, unloaded, dashboardView, ticketView >>
chartVars == << charts, instances >>
debounceVars == << now, wait, debouncers, edits >>
monitorVars == << isOnline, navOnline >>
serverVars == << store, dispatched, replies, listing >>

vars == << timerVars, requestVars, panelVars, chartVars, debounceVars,
           monitorVars, serverVars >>

-----------------------------------------------------------------------------
(* Bounds of the model *)

MaxTimers == 3          \* intervals created in the registry-level runs
MaxRestarts == 2        \* re-runs of startAutoRefresh after construction
MaxRequests == 4        \* requests issued in one run
MaxNotifications == 2   \* notification elements in the document at once
MaxCharts == 4          \* charts constructed in the registry-level runs
MaxTime == 5            \* ticks of the clock in the debounce runs
MaxWait == 3            \* largest debounce delay, in ticks
MaxEvents == 3          \* input events in one debounce run
MaxPage == 3            \* largest page number reached by Next clicks
MaxTotalPages == 2      \* largest total_pages a tickets response carries
MaxTicketRequests == 3  \* requests issued from the tickets view in one run
MaxInflight == 2        \* requests of the tickets view in flight at once
MaxItems == 7           \* records matching a list query
MaxPageSize == 3        \* largest page size of a list query
MaxDay == 3             \* calendar days the date inputs can name
MaxDateQueries == 1     \* date ranges the operator applies
MaxPartners == 2        \* partners in a top_partners list
MaxClicks == 2          \* largest click count of a partner

(* Program constants *)

DASHBOARD_INTERVAL == 30000
TICKETS_INTERVAL == 10000
AUTO_REFRESH_ENABLED == TRUE

RefreshKeys == {"dashboard", "tickets"}
Callbacks == {"refreshDashboard", "refreshTickets"}
Periods == {TICKETS_INTERVAL, DASHBOARD_INTERVAL}

NoCallback == "none"

-----------------------------------------------------------------------------
(* Browser interval timers: setInterval / clearInterval *)

\* Ids of the intervals that were created and not cleared.
ActiveTimers == {i \in 1..Len(timers) : timers[i].active}

\* setInterval(callback, interval): a new active interval; its id is the
\* next positive integer.
setInterval(tm, key, callback, interval) ==
    Append(tm, [key |-> key, callback |-> callback,
                interval |-> interval, active |-> TRUE])

\* clearInterval(id): an unknown id is ignored.
clearInterval(tm, id) ==
    IF id \in 1..Len(tm) THEN [tm EXCEPT ![id].active = FALSE] ELSE tm

\* ConnectionMonitor.checkInterval (charts.js 913)
CHECK_INTERVAL == 30000

\* ConnectionMonitor.init (charts.js 931-934): the probe's interval is
\* created with setInterval directly; its id is not kept anywhere.
ConnectionMonitor_init(tm) ==
    setInterval(tm, "none", "checkConnection", CHECK_INTERVAL)

\* Ids of the probe's interval.
ProbeTimers == {i \in 1..Len(timers) : timers[i].callback = "checkConnection"}

-----------------------------------------------------------------------------
(* AutoRefresh (charts.js 868-904).  Each method maps the registry `ar` and *)
(* the interval table `tm` to their values after the call.                  *)

MapDelete(f, k) == [x \in DOMAIN f \ {k} |-> f[x]]

MapSet(f, k, v) == [x \in DOMAIN f \cup {k} |-> IF x = k THEN v ELSE f[x]]

EmptyMap == [x \in {} |-> 0]

stop_keepInterval(ar, tm, key) ==
    [ar |-> [ar EXCEPT !.intervals = MapDelete(ar.intervals, key)], tm |-> tm]

\* intervals.get(key) is undefined for an unknown key; `if (intervalId)`
\* also rejects the id 0.
stop(ar, tm, key) ==
    IF key \in DOMAIN ar.intervals /\ ar.intervals[key] # 0
    THEN [ar |-> [ar EXCEPT !.intervals = MapDelete(ar.intervals, key)],
          tm |-> clearInterval(tm, ar.intervals[key])]
    ELSE [ar |-> ar, tm |-> tm]

start_clearingAll(ar, tm, key, callback, interval) ==
    IF ~ar.enabled
    THEN [ar |-> ar, tm |-> tm]
    ELSE LET s == [ar |-> [ar EXCEPT !.intervals = EmptyMap],
                   tm |-> [i \in 1..Len(tm) |->
                              [tm[i] EXCEPT !.active = FALSE]]]
             tm2 == setInterval(s.tm, key, callback, interval)
         IN [ar |-> [s.ar EXCEPT !.intervals =
                                    MapSet(s.ar.intervals, key, Len(tm2))],
             tm |-> tm2]

start(ar, tm, key, callback, interval) ==
    IF ~ar.enabled
    THEN [ar |-> ar, tm |-> tm]
    ELSE LET s == stop(ar, tm, key)
             tm2 == setInterval(s.tm, key, callback, interval)
         IN [ar |-> [s.ar EXCEPT !.intervals =
                                    MapSet(s.ar.intervals, key, Len(tm2))],
             tm |-> tm2]

stopAll_everyInterval(ar, tm) ==
    [ar |-> [ar EXCEPT !.intervals = EmptyMap],
     tm |-> [i \in 1..Len(tm) |-> [tm[i] EXCEPT !.active = FALSE]]]

stopAll(ar, tm) ==
    [ar |-> [ar EXCEPT !.intervals = EmptyMap],
     tm |-> [i \in 1..Len(tm) |->
                IF \E k \in DOMAIN ar.intervals : ar.intervals[k] = i
                THEN [tm[i] EXCEPT !.active = FALSE]
                ELSE tm[i]]]

toggle_flagOnly(ar, tm) ==
    [ar |-> [ar EXCEPT !.enabled = ~ar.enabled], tm |-> tm]

toggle(ar, tm) ==
    LET ar2 == [ar EXCEPT !.enabled = ~ar.enabled]
    IN IF ~ar2.enabled THEN stopAll(ar2, tm) ELSE [ar |-> ar2, tm |-> tm]

\* No interval has ticked yet.
NoFire == [key |-> "none", callback |-> NoCallback, timer |-> 0]

\* new AutoRefresh()
NewAutoRefresh == [intervals |-> EmptyMap, enabled |-> AUTO_REFRESH_ENABLED]

-----------------------------------------------------------------------------
(* LoadingManager (charts.js 701-727).  `overlay` tells whether the element *)
(* 'loading-overlay' was found by the constructor; `display` is the         *)
(* overlay's style.display.                                                 *)

\* new LoadingManager(): no key in flight; the overlay element exists and is
\* hidden by the page's stylesheet until show() is called.
NewLoading == [loadingStates |-> {}, overlay |-> TRUE, display |-> "none"]

show(l, key) ==
    [l EXCEPT !.loadingStates = @ \cup {key},
              !.display = IF l.overlay THEN "flex" ELSE @]

hide_whateverRemains(l, key) ==
    [l EXCEPT !.loadingStates = @ \ {key},
              !.display = IF l.overlay THEN "none" ELSE @]

hide(l, key) ==
    LET rest == l.loadingStates \ {key}
    IN [l EXCEPT !.loadingStates = rest,
                 !.display = IF rest = {} /\ l.overlay THEN "none" ELSE @]

hideAll(l) ==
    [l EXCEPT !.loadingStates = {},
              !.display = IF l.overlay THEN "none" ELSE @]

OverlayVisible == loading.overlay /\ loading.display = "flex"

-----------------------------------------------------------------------------
(* ChartManager (charts.js 2-83).  `cm` is [charts, instances]; a Chart is  *)
(* live from its construction until its destroy().                          *)

destroy(inst, i) == [inst EXCEPT ![i].destroyed = TRUE]

createChart_keepOld(cm, canvasId, found, built) ==
    IF ~found \/ ~built
    THEN cm
    ELSE LET made == Append(cm.instances,
                            [canvas |-> canvasId, destroyed |-> FALSE])
         IN [charts |-> MapSet(cm.charts, canvasId, Len(made)),
             instances |-> made]

\* `found` is the result of document.getElementById(canvasId); `built`
\* tells whether `new Chart(...)` returned (it throws for a chart type that
\* is not registered, after the previous chart was destroyed).
createChart(cm, canvasId, found, built) ==
    IF ~found
    THEN cm
    ELSE LET old == IF canvasId \in DOMAIN cm.charts
                    THEN destroy(cm.instances, cm.charts[canvasId])
                    ELSE cm.instances
             made == Append(old, [canvas |-> canvasId, destroyed |-> FALSE])
         IN IF built
            THEN [charts |-> MapSet(cm.charts, canvasId, Len(made)),
                  instances |-> made]
            ELSE [charts |-> cm.charts, instances |-> old]

destroyChart(cm, canvasId) ==
    IF canvasId \in DOMAIN cm.charts
    THEN [charts |-> MapDelete(cm.charts, canvasId),
          instances |-> destroy(cm.instances, cm.charts[canvasId])]
    ELSE cm

destroyAllCharts_clearOnly(cm) ==
    [charts |-> EmptyMap, instances |-> cm.instances]

destroyAllCharts(cm) ==
    [charts |-> EmptyMap,
     instances |-> [i \in 1..Len(cm.instances) |->
                       IF \E c \in DOMAIN cm.charts : cm.charts[c] = i
                       THEN [cm.instances[i] EXCEPT !.destroyed = TRUE]
                       ELSE cm.instances[i]]]

\* new ChartManager()
NewChartManager == [charts |-> EmptyMap, instances |-> << >>]

ChartManagerState == [charts |-> charts, instances |-> instances]

SetChartManager(cm) ==
    /\ charts' = cm.charts
    /\ instances' = cm.instances

LiveCharts == {i \in 1..Len(instances) : ~instances[i].destroyed}

LiveChartsOf(canvasId) == {i \in LiveCharts : instances[i].canvas = canvasId}

-----------------------------------------------------------------------------
(* Utils.showNotification (app.js 782-796): appends a notification element; *)
(* each element removes itself after CONFIG.NOTIFICATIONS.duration.         *)

showNotification(ns, message, type) ==
    Append(ns, [message |-> message, type |-> type])

ErrorHandler_handle_noDefault(ns, error) == showNotification(ns, error, "error")

\* ErrorHandler.handle (charts.js 731-750): the failure is shown to the user,
\* with the message of the error, or a default when it has none.
ErrorHandler_handle(ns, error) ==
    showNotification(ns, IF error # "" THEN error
                         ELSE "An unexpected error occurred", "error")

-----------------------------------------------------------------------------
(* APIWrapper.execute (charts.js 760-776), in its two halves: up to the     *)
(* await of the network call, and from the response to the return/throw.    *)
(* `c` is the console state touched by requests:                            *)
(*   [inflight, nextReq, loading, shown, notifications, params,             *)
(*    currentPage].                                                         *)

Request(id, loadingKey, showLoading) ==
    [id |-> id, key |-> loadingKey, showLoading |-> showLoading]

execute_begin(c, loadingKey, showLoading) ==
    [c EXCEPT !.loading = IF showLoading THEN show(@, loadingKey) ELSE @,
              !.inflight = @ \cup {Request(c.nextReq, loadingKey, showLoading)},
              !.nextReq = @ + 1]

execute_settle_silent(c, r, ok, message) ==
    [c EXCEPT !.inflight = @ \ {r},
              !.loading = IF r.showLoading THEN hide(@, r.key) ELSE @,
              !.params = MapDelete(@, r.id)]

execute_settle_hideInTry(c, r, ok, message) ==
    [c EXCEPT !.inflight = @ \ {r},
              !.notifications =
                  IF ok THEN @ ELSE ErrorHandler_handle(@, message),
              !.loading = IF r.showLoading /\ ok THEN hide(@, r.key) ELSE @,
              !.params = MapDelete(@, r.id)]

\* The awaited call returned (ok) or threw an error with `message`.
execute_settle(c, r, ok, message) ==
    [c EXCEPT !.inflight = @ \ {r},
              !.notifications =
                  IF ok THEN @ ELSE ErrorHandler_handle(@, message),
              !.loading = IF r.showLoading THEN hide(@, r.key) ELSE @,
              !.params = MapDelete(@, r.id)]

execute_end(c, r, ok) == execute_settle(c, r, ok, "request failed")

Console == [inflight |-> inflight, nextReq |-> nextReq, loading |-> loading,
            shown |-> shown, notifications |-> notifications,
            params |-> params, currentPage |-> currentPage,
            dateRange |-> dateRange]

SetConsole(c) ==
    /\ inflight' = c.inflight
    /\ nextReq' = c.nextReq
    /\ loading' = c.loading
    /\ shown' = c.shown
    /\ notifications' = c.notifications
    /\ params' = c.params
    /\ currentPage' = c.currentPage
    /\ dateRange' = c.dateRange

\* The list views that have a pager.
ListViews == {"searches", "clicks", "users", "tickets"}

\* Utils.getDateRange (app.js 843-852): the default range ends today.
getDateRange == [start |-> 1, end |-> MaxDay]

\* The console state set up by the scripts and the AdminPanel constructor,
\* before init() runs.
NewConsole == [inflight |-> {}, nextReq |-> 1, loading |-> NewLoading,
               shown |-> [v \in RefreshKeys |-> 0], notifications |-> << >>,
               params |-> EmptyMap,
               currentPage |-> [v \in ListViews |-> 1],
               dateRange |-> getDateRange]

CanIssue == nextReq <= MaxRequests

CanNotify(n) == Len(notifications) + n <= MaxNotifications

\* Room for one more request of the tickets view (requests 1 to 3 are those
\* issued until the Tickets section is first rendered).
CanIssueMore ==
    /\ nextReq - 3 <= MaxTicketRequests
    /\ Cardinality(inflight) < MaxInflight

-----------------------------------------------------------------------------
(* Ticket Lifecycle Manager and Notification Dispatcher: the server behind  *)
(* PUT /admin/tickets/{id}.  A ticket is [status, resolved_by, resolved_at, *)
(* admin_notes]; "" and 0 stand for a field that is not set.                *)

\* The tickets followed: one ticket of the list.
TicketIds == {1}

Statuses == {"open", "in-progress", "resolved"}

\* The times at which the server may handle an update.
Stamps == {1, 2}

\* create(): a new ticket is open.
NewTicket ==
    [status |-> "open", resolved_by |-> "", resolved_at |-> 0,
     admin_notes |-> ""]

UpdateData(status, admin_notes, resolved_by) ==
    [status |-> status, admin_notes |-> admin_notes,
     resolved_by |-> resolved_by]

\* Every field the update supplies already has that value.
SameValues(ticket, data) ==
    /\ data.status \in {"", ticket.status}
    /\ data.resolved_by \in {"", ticket.resolved_by}
    /\ data.admin_notes \in {"", ticket.admin_notes}

Outcome(ticket, code, dispatch) ==
    [ticket |-> ticket, code |-> code, dispatch |-> dispatch]

\* The fields the update supplies are written; a transition to resolved
\* stamps resolved_at and triggers one notification dispatch.
applyUpdate(ticket, data, at) ==
    LET t == [ticket EXCEPT
                 !.status = IF data.status # "" THEN data.status ELSE @,
                 !.resolved_by =
                     IF data.resolved_by # "" THEN data.resolved_by ELSE @,
                 !.admin_notes =
                     IF data.admin_notes # "" THEN data.admin_notes ELSE @]
    IN IF data.status = "resolved"
       THEN Outcome([t EXCEPT !.resolved_at = at], 200, 1)
       ELSE Outcome(t, 200, 0)

\* The response to an update: status code, the `detail` of an error
\* response, and the ticket.
Reply(code, ticket) ==
    [code |-> code,
     detail |-> CASE code = 409 -> "InvalidTransitionError"
                  [] code = 400 -> "ValidationError"
                  [] OTHER -> "",
     ticket |-> ticket]

request_ignoreStatus(reply) == [ok |-> TRUE, message |-> ""]

\* AdminAPI.request (charts.js 512-537) once fetch has returned `reply`: a
\* response that is not ok is thrown as an Error carrying its detail.
request(reply) ==
    IF reply.code = 200
    THEN [ok |-> TRUE, message |-> ""]
    ELSE [ok |-> FALSE,
          message |-> IF reply.detail # "" THEN reply.detail
                      ELSE "HTTP error! status"]

update_unguarded(ticket, data, at) == applyUpdate(ticket, data, at)

\* update(ticketId, data) on an existing ticket, handled at time `at`: the
\* ticket afterwards, the status code of the response and the number of
\* notification dispatch attempts made.
update(ticket, data, at) ==
    IF ticket.status = "resolved"
    THEN IF SameValues(ticket, data)
         THEN Outcome(ticket, 200, 0)
         ELSE Outcome(ticket, 409, 0)
    ELSE IF ticket.status = "in-progress" /\ data.status = "open"
    THEN Outcome(ticket, 409, 0)
    ELSE IF data.status = "resolved" /\ data.resolved_by = ""
            /\ ticket.resolved_by = ""
    THEN Outcome(ticket, 400, 0)
    ELSE applyUpdate(ticket, data, at)

-----------------------------------------------------------------------------
(* Query Filter Engine: list(entityKind, page, pageSize, filters), behind   *)
(* GET /admin/{searches|clicks|users|tickets}?page&per_page.  The records   *)
(* matching the filters are a sequence in the engine's sort order.          *)

\* n records, newest first (record i was created i-th).
Records(n) == [i \in 1..n |-> n + 1 - i]

Min(a, b) == IF a < b THEN a ELSE b

TotalPages_floor(totalCount, pageSize) ==
    IF totalCount < pageSize THEN 1 ELSE totalCount \div pageSize

\* ceil(totalCount / pageSize), minimum 1 even when totalCount = 0
TotalPages(totalCount, pageSize) ==
    IF totalCount = 0 THEN 1
    ELSE (totalCount + pageSize - 1) \div pageSize

\* The response to a list query with a valid page (>= 1) and page size.
list(records, page, pageSize) ==
    LET first == (page - 1) * pageSize + 1
        last == Min(page * pageSize, Len(records))
    IN [items |-> IF first > last THEN << >> ELSE SubSeq(records, first, last),
        page |-> page,
        totalPages |-> TotalPages(Len(records), pageSize),
        totalCount |-> Len(records)]

\* A client walking a list page by page: nothing received yet.
NewListing(n, pageSize) ==
    [records |-> Records(n), pageSize |-> pageSize, pages |-> EmptyMap,
     totalPages |-> 0, totalCount |-> 0]

-----------------------------------------------------------------------------
(* Metrics Aggregator: snapshot(startDate, endDate), behind                 *)
(* GET /admin/dashboard?start_date&end_date.  A date is a calendar day      *)
(* 1..MaxDay; NoDate stands for a bound that is not sent, which does not    *)
(* restrict the range.                                                      *)

NoDate == 0

Days == 1..MaxDay

\* The SearchEvents recorded on a day: a different power of two each day, so
\* that a total tells which days were counted.
SearchesOn(day) == 2 ^ (day - 1)

RECURSIVE SearchesIn(_, _)
SearchesIn(first, last) ==
    IF first > last THEN 0
    ELSE SearchesOn(first) + SearchesIn(first + 1, last)

snapshot_failing(startDate, endDate) ==
    IF startDate # NoDate /\ endDate # NoDate /\ startDate > endDate
    THEN [ok |-> FALSE, total_searches |-> 0]
    ELSE [ok |-> TRUE,
          total_searches |->
              SearchesIn(IF startDate = NoDate THEN 1 ELSE startDate,
                         IF endDate = NoDate THEN MaxDay ELSE endDate)]

\* snapshot: the bounds are swapped when startDate is later than endDate.
snapshot(startDate, endDate) ==
    LET swap == startDate # NoDate /\ endDate # NoDate /\ startDate > endDate
        first == IF startDate = NoDate THEN 1
                 ELSE IF swap THEN endDate ELSE startDate
        last == IF endDate = NoDate THEN MaxDay
                ELSE IF swap THEN startDate ELSE endDate
    IN [ok |-> TRUE, total_searches |-> SearchesIn(first, last)]

-----------------------------------------------------------------------------
(* The top partners of the dashboard: ChartManager.createPartnerChart       *)
(* (charts.js 196-243) and AdminPanel.updateTopPartnersTable (app.js        *)
(* 491-504).  A partner is [name, clicks]; a name is its rank in            *)
(* alphabetical order.                                                      *)

TOP_N == 10

Partner(name, clicks) == [name |-> name, clicks |-> clicks]

\* The lists of at most MaxPartners partners, each name at most once.
PartnerLists ==
    {data \in UNION {[1..n -> [name : 1..MaxPartners, clicks : 1..MaxClicks]] :
                        n \in 0..MaxPartners} :
        \A i, j \in DOMAIN data : data[i].name = data[j].name => i = j}

\* Array.prototype.sort with (a, b) => b.clicks - a.clicks: descending by
\* clicks, and stable: partners with equal clicks keep their order.
RECURSIVE insert(_, _)
insert(sorted, item) ==
    IF sorted = << >> THEN << item >>
    ELSE IF Head(sorted).clicks >= item.clicks
         THEN << Head(sorted) >> \o insert(Tail(sorted), item)
         ELSE << item >> \o sorted

RECURSIVE sort(_)
sort(data) ==
    IF data = << >> THEN << >>
    ELSE insert(sort(SubSeq(data, 1, Len(data) - 1)), data[Len(data)])

\* slice(0, end)
slice(data, end) == SubSeq(data, 1, Min(end, Len(data)))

\* createPartnerChart: the bars of the chart, left to right.
sortedData(data) == slice(sort(data), TOP_N)

\* updateTopPartnersTable: one row per partner, in the order given.
updateTopPartnersTable(partners) == partners

NoRanking == [table |-> << >>, chart |-> << >>]

\* A list in ranking order: descending by clicks, equal clicks by name.
Ranked(data) ==
    \A i, j \in DOMAIN data :
       i < j => \/ data[i].clicks > data[j].clicks
                \/ /\ data[i].clicks = data[j].clicks
                   /\ data[i].name < data[j].name

\* The top_partners a MetricsSnapshot can carry: the aggregator ranks them.
RankedLists == {data \in PartnerLists : Ranked(data) /\ Len(data) <= TOP_N}

NoStats == 0

-----------------------------------------------------------------------------
(* AdminPanel (app.js 2-608) *)

Sections == {"dashboard", "searches", "clicks", "partners", "users",
             "tickets", "affiliate-links"}

DashboardCanvases == {"seven-day-chart", "thirty-day-chart"}

\* What a request asks for: the page of a list query (getTickets), or the
\* ticket and the form fields of an update (updateTicket; "" is a field that
\* is not sent); `via` is the handler awaiting the request.
ListQuery(page, filters) ==
    [ticket |-> 0, status |-> "", resolved_by |-> "", admin_notes |-> "",
     page |-> page, via |-> "loadTickets",
     start_date |-> filters.start_date, end_date |-> filters.end_date]

\* What the date inputs can hold: a day, or nothing.
DateInputs == {NoDate} \cup Days

getDashboard_startOnly(startDate, endDate) ==
    [start_date |-> startDate, end_date |-> NoDate]

\* AdminAPI.getDashboard (charts.js 586-592): the query parameters; an empty
\* bound is not sent.
getDashboard(startDate, endDate) ==
    [start_date |-> IF startDate # NoDate THEN startDate ELSE NoDate,
     end_date |-> IF endDate # NoDate THEN endDate ELSE NoDate]

DashboardQuery(p) ==
    [ticket |-> 0, status |-> "", resolved_by |-> "", admin_notes |-> "",
     page |-> 0, via |-> "loadDashboard",
     start_date |-> p.start_date, end_date |-> p.end_date]

\* getTicketFilters (app.js 280-293), the date bounds.
getTicketFilters(c) ==
    [start_date |-> c.dateRange.start, end_date |-> c.dateRange.end]

\* loadDashboard / loadTickets up to their await: the wrapped API call.
loadDashboard(c) ==
    [execute_begin(c, "dashboard", TRUE) EXCEPT
        !.params = MapSet(@, c.nextReq,
                      DashboardQuery(getDashboard(c.dateRange.start,
                                                  c.dateRange.end)))]

loadTickets(c) ==
    [execute_begin(c, "tickets", TRUE) EXCEPT
        !.params = MapSet(@, c.nextReq,
                      ListQuery(c.currentPage["tickets"],
                                getTicketFilters(c)))]

\* loadSection: the other sections' loaders are placeholders that only log.
loadSection(c, section) ==
    CASE section = "dashboard" -> loadDashboard(c)
      [] section = "tickets" -> loadTickets(c)
      [] OTHER -> c

\* loadDashboard / loadTickets after their await: on success the stats and
\* tables (dashboard) or the table, pagination and badge (tickets) are
\* rewritten from the response, whatever the current section is; on failure
\* the error is only logged.
render(c, r, ok) ==
    IF ok /\ r.key \in DOMAIN c.shown
    THEN [c EXCEPT !.shown[r.key] = r.id]
    ELSE c

\* loadDashboard after its await: each trend chart is recreated when the
\* response carries a non-empty trend; `drawn` are the canvases for which
\* that is the case and the canvas element exists (the chart types used, 'line'
\* and 'bar', are registered).
renderCharts(cm, drawn) ==
    LET c7 == IF "seven-day-chart" \in drawn
              THEN createChart(cm, "seven-day-chart", TRUE, TRUE) ELSE cm
    IN IF "thirty-day-chart" \in drawn
       THEN createChart(c7, "thirty-day-chart", TRUE, TRUE) ELSE c7

startAutoRefresh_unregistered(ar, tm) ==
    [ar |-> ar,
     tm |-> setInterval(setInterval(tm, "dashboard", "refreshDashboard",
                                    DASHBOARD_INTERVAL),
                        "tickets", "refreshTickets", TICKETS_INTERVAL)]

startAutoRefresh(ar, tm) ==
    IF ~AUTO_REFRESH_ENABLED
    THEN [ar |-> ar, tm |-> tm]
    ELSE LET d == start(ar, tm, "dashboard", "refreshDashboard",
                        DASHBOARD_INTERVAL)
         IN start(d.ar, d.tm, "tickets", "refreshTickets", TICKETS_INTERVAL)

-----------------------------------------------------------------------------
(* The tickets view of AdminPanel (app.js 266-528): the table, the badge,   *)
(* the pager and the detail modal.  `v` is [table, badge, pager, modal].    *)

\* Values an operator can leave in the resolved-by input of the update form:
\* cleared, blanks only, or the pre-filled 'admin'.
NameTexts == {"", " ", "admin"}

\* The notes textarea is left as rendered: empty, for a ticket without notes.
NoteTexts == {""}

\* String.prototype.trim on those values.
trim(text) == IF text = " " THEN "" ELSE text

\* getTickets response for a page, as the console reads it: the modelled
\* tickets are on page 1; `total` is total_pages.
ListData(st, page, total) ==
    [tickets |-> IF page = 1 THEN [t \in TicketIds |-> st[t].status]
                 ELSE EmptyMap,
     page |-> page, total_pages |-> total]

\* updateTicketsTable: one row per ticket of the response; a row shows the
\* status, and the Resolve button unless the status is 'resolved'.
updateTicketsTable(tickets) ==
    [t \in TicketIds |-> IF t \in DOMAIN tickets THEN tickets[t] ELSE "none"]

ResolveButton(tbl, t) == tbl[t] \notin {"none", "resolved"}

\* updateTicketBadge: the number of open tickets in the response.
updateTicketBadge(tickets) ==
    Cardinality({t \in DOMAIN tickets : tickets[t] = "open"})

\* updatePagination
updatePagination(page, totalPages) ==
    [page |-> page, totalPages |-> totalPages,
     prevDisabled |-> page <= 1, nextDisabled |-> page >= totalPages]

\* The pager of the page as loaded: nothing rendered yet, buttons enabled.
NewPager ==
    [page |-> 0, totalPages |-> 0, prevDisabled |-> FALSE,
     nextDisabled |-> FALSE]

NoModal == [open |-> FALSE, ticket |-> 0, status |-> "", form |-> FALSE,
            resolved_by |-> ""]

\* showTicketDetailModal: the update form is rendered unless the ticket is
\* resolved; `resolved_by` is the value its resolved-by input starts with
\* (the ticket's, or 'admin' when the ticket has none).
showTicketDetailModal(id, ticket) ==
    [open |-> TRUE, ticket |-> id, status |-> ticket.status,
     form |-> ticket.status # "resolved",
     resolved_by |-> IF ticket.status = "resolved" THEN ""
                     ELSE IF ticket.resolved_by # "" THEN ticket.resolved_by
                     ELSE "admin"]

\* closeModal('ticket-detail-modal'): the modal is hidden, its content stays.
closeModal(m) == [m EXCEPT !.open = FALSE]

\* updateTicketFromForm, the data it sends: every form field whose trimmed
\* value is not empty.
formUpdateData(status, admin_notes, resolved_by) ==
    UpdateData(trim(status), trim(admin_notes), trim(resolved_by))

\* resolveTicket, the data it sends.
resolveUpdateData == UpdateData("resolved", "Ticket resolved by admin", "admin")

UpdateQuery(id, data, via) ==
    [ticket |-> id, status |-> data.status, resolved_by |-> data.resolved_by,
     admin_notes |-> data.admin_notes, page |-> 0, via |-> via,
     start_date |-> NoDate, end_date |-> NoDate]

DetailQuery(id) ==
    [ticket |-> id, status |-> "", resolved_by |-> "", admin_notes |-> "",
     page |-> 0, via |-> "viewTicketDetail",
     start_date |-> NoDate, end_date |-> NoDate]

\* adminAPI.updateTicket / getTicketDetail up to their await.
updateTicket(c, id, data, via) ==
    [execute_begin(c, "ticket-update", TRUE) EXCEPT
        !.params = MapSet(@, c.nextReq, UpdateQuery(id, data, via))]

getTicketDetail(c, id) ==
    [execute_begin(c, "ticket-detail", TRUE) EXCEPT
        !.params = MapSet(@, c.nextReq, DetailQuery(id))]

TicketView == [table |-> table, badge |-> badge, pager |-> pager,
               modal |-> modal]

SetTicketView(v) ==
    /\ table' = v.table
    /\ badge' = v.badge
    /\ pager' = v.pager
    /\ modal' = v.modal

NewTicketView ==
    [table |-> [t \in TicketIds |-> "none"], badge |-> 0, pager |-> NewPager,
     modal |-> NoModal]

\* loadTickets after its await, on success: table, pager and badge are
\* rewritten from the response.
renderTickets(v, data) ==
    [v EXCEPT !.table = updateTicketsTable(data.tickets),
              !.pager = updatePagination(data.page, data.total_pages),
              !.badge = updateTicketBadge(data.tickets)]

-----------------------------------------------------------------------------
(* AdminPanel: event handlers *)

\* loadSearches, loadClicks, loadUsers are placeholders that only log;
\* loadTickets queries the page held in currentPage.
loadView(c, view) == IF view = "tickets" THEN loadTickets(c) ELSE c

prevClick_unguarded(c, view) ==
    loadView([c EXCEPT !.currentPage[view] = @ - 1], view)

\* The click listeners of a view's prev and next buttons (app.js 94-146).
prevClick(c, view) ==
    IF c.currentPage[view] > 1
    THEN loadView([c EXCEPT !.currentPage[view] = @ - 1], view)
    ELSE c

nextClick(c, view) == loadView([c EXCEPT !.currentPage[view] = @ + 1], view)

\* switchSection (app.js 174-201)
SwitchSection(section) ==
    /\ CanIssue
    /\ currentSection' = section
    /\ SetConsole(loadSection(Console, section))
    /\ UNCHANGED << timerVars, hidden, unloaded, dashboardView, ticketView, chartVars,
                    debounceVars,
                    monitorVars, serverVars >>

\* applyDateFilter (app.js 530-540)
ApplyDateFilter(startDate, endDate) ==
    /\ CanIssue /\ CanNotify(1)
    /\ LET c == loadSection([Console EXCEPT !.dateRange =
                                [start |-> startDate, end |-> endDate]],
                            currentSection)
       IN SetConsole([c EXCEPT !.notifications =
                 showNotification(@, "Date filter applied", "success")])
    /\ UNCHANGED << timerVars, panelVars, chartVars, debounceVars,
                    monitorVars, serverVars >>

\* A registry interval elapses: the callback given by startAutoRefresh
\* reloads its view if that view is the current section.
AutoRefreshTick(i) ==
    /\ i \in ActiveTimers
    /\ timers[i].callback \in Callbacks
    /\ currentSection \in RefreshKeys => CanIssue
    /\ lastFired' = [key |-> timers[i].key, callback |-> timers[i].callback,
                     timer |-> i]
    /\ LET view == IF timers[i].callback = "refreshDashboard"
                   THEN "dashboard" ELSE "tickets"
       IN SetConsole(IF currentSection = view
                     THEN loadSection(Console, view)
                     ELSE Console)
    /\ UNCHANGED << autoRefresh, timers, panelVars, chartVars, debounceVars,
                    monitorVars, serverVars >>

\* The response of a dashboard or tickets query arrives (ok) or the query
\* fails (~ok); execute and then the loader resume.
\* For a tickets query `total` is the total_pages of the response, which
\* carries the page asked for and the tickets as the server holds them.
ResponseArrives(r, delivered, drawn, total, top_partners) ==
    /\ r \in inflight
    /\ r.key \in RefreshKeys
    /\ \E q \in {params[r.id]} :
       \E data \in {snapshot(q.start_date, q.end_date)} :
       \E ok \in {delivered /\ (r.key = "dashboard" => data.ok)} :
          /\ ~ok => CanNotify(1)
          /\ ~(ok /\ r.key = "dashboard") => drawn = {}
          /\ ~(ok /\ r.key = "dashboard") => top_partners = << >>
          /\ ~(ok /\ r.key = "tickets") => total = 1
          /\ SetConsole(render(execute_end(Console, r, ok), r, ok))
          /\ SetChartManager(renderCharts(ChartManagerState, drawn))
          /\ stats' = IF ok /\ r.key = "dashboard"
                      THEN data.total_searches ELSE stats
          /\ ranking' = IF ok /\ r.key = "dashboard"
                        THEN [ranking EXCEPT !.table =
                                 updateTopPartnersTable(top_partners)]
                        ELSE ranking
          /\ SetTicketView(IF ok /\ r.key = "tickets"
                           THEN renderTickets(TicketView,
                                    ListData(store, q.page, total))
                           ELSE TicketView)
    /\ UNCHANGED << currentSection, hidden, unloaded >>
    /\ UNCHANGED << timerVars, debounceVars, monitorVars, serverVars >>

\* How a wrapped call can fail: an error response with a detail, an error
\* response without one (status 500), fetch rejecting, and an error whose
\* message is empty (the detail of the response is an empty list).
Failures == {"detail", "status", "network", "empty"}

\* The error thrown by AdminAPI.request for each of them.
thrown(failure) ==
    CASE failure = "detail" ->
           request([code |-> 409, detail |-> "InvalidTransitionError"]).message
      [] failure = "status" -> request([code |-> 500, detail |-> ""]).message
      [] failure = "network" -> "Failed to fetch"
      [] failure = "empty" -> ""

\* The query r of loadDashboard or loadTickets fails: execute shows the
\* error and rethrows it, and the loader's catch only logs it.
RequestFails(r, failure) ==
    /\ r \in inflight
    /\ r.key \in RefreshKeys
    /\ CanNotify(1)
    /\ SetConsole(render(execute_settle(Console, r, FALSE, thrown(failure)),
                         r, FALSE))
    /\ UNCHANGED << timerVars, panelVars, chartVars, debounceVars,
                    monitorVars, serverVars >>

\* visibilitychange handler (app.js 616-622)
VisibilityChange(isHidden) ==
    /\ isHidden \/ Len(timers) < 2 * (MaxRestarts + 1)
    /\ hidden' = isHidden
    /\ LET r == IF isHidden THEN stopAll(autoRefresh, timers)
                ELSE startAutoRefresh(autoRefresh, timers)
       IN /\ autoRefresh' = r.ar
          /\ timers' = r.tm
    /\ UNCHANGED << lastFired, currentSection, unloaded, dashboardView, ticketView,
                    requestVars,
                    chartVars, debounceVars, monitorVars, serverVars >>

\* beforeunload handler (app.js 625-628): the registry timers are stopped
\* and the charts destroyed; the document is discarded after it.
BeforeUnload ==
    /\ ~unloaded
    /\ unloaded' = TRUE
    /\ LET r == stopAll(autoRefresh, timers)
       IN /\ autoRefresh' = r.ar
          /\ timers' = r.tm
    /\ SetChartManager(destroyAllCharts(ChartManagerState))
    /\ UNCHANGED << lastFired, currentSection, hidden, dashboardView,
                    ticketView, requestVars,
                    debounceVars, monitorVars, serverVars >>

\* Pagination listeners (app.js 94-146).  Only the tickets pager is ever
\* updated from a response, so only its buttons can be disabled; only
\* loadTickets issues a query.
PrevClick(view) ==
    /\ view = "tickets" => ~pager.prevDisabled
    /\ currentPage[view] > 1 /\ view = "tickets" => CanIssueMore
    /\ SetConsole(prevClick(Console, view))
    /\ UNCHANGED << timerVars, panelVars, chartVars, debounceVars,
                    monitorVars, serverVars >>

NextClick(view) ==
    /\ view = "tickets" => ~pager.nextDisabled /\ CanIssueMore
    /\ currentPage[view] < MaxPage
    /\ SetConsole(nextClick(Console, view))
    /\ UNCHANGED << timerVars, panelVars, chartVars, debounceVars,
                    monitorVars, serverVars >>

\* The View button of a table row: viewTicketDetail up to its await.
ViewTicketDetail(t) ==
    /\ table[t] # "none"
    /\ CanIssueMore
    /\ SetConsole(getTicketDetail(Console, t))
    /\ UNCHANGED << timerVars, panelVars, chartVars, debounceVars,
                    monitorVars, serverVars >>

\* The ticket detail arrives (as the server holds the ticket) or the query
\* fails: viewTicketDetail resumes and shows the modal.
DetailArrives(r, ok) ==
    /\ r \in inflight
    /\ r.key = "ticket-detail"
    /\ ok \/ CanNotify(1)
    /\ SetConsole(execute_end(Console, r, ok))
    /\ modal' = IF ok
                THEN showTicketDetailModal(params[r.id].ticket,
                                           store[params[r.id].ticket])
                ELSE modal
    /\ UNCHANGED << currentSection, hidden, unloaded, dashboardView, table, badge, pager >>
    /\ UNCHANGED << timerVars, chartVars, debounceVars, monitorVars,
                    serverVars >>

\* The Cancel button of the update form, or the modal's close button.
CloseModal ==
    /\ modal.open
    /\ modal' = closeModal(modal)
    /\ UNCHANGED << currentSection, hidden, unloaded, dashboardView, table, badge, pager >>
    /\ UNCHANGED << timerVars, requestVars, chartVars, debounceVars,
                    monitorVars, serverVars >>

\* Submit of the update form with the given field values (the operator may
\* leave the resolved-by input as rendered or type over it):
\* updateTicketFromForm up to its await.
SubmitForm(status, admin_notes, resolved_by) ==
    /\ modal.open /\ modal.form
    /\ resolved_by \in NameTexts \cup {modal.resolved_by}
    /\ CanIssueMore
    /\ SetConsole(updateTicket(Console, modal.ticket,
                      formUpdateData(status, admin_notes, resolved_by),
                      "updateTicketFromForm"))
    /\ UNCHANGED << timerVars, panelVars, chartVars, debounceVars,
                    monitorVars, serverVars >>

\* The Resolve button of a table row: resolveTicket up to its await.
ClickResolve(t) ==
    /\ ResolveButton(table, t)
    /\ CanIssueMore
    /\ SetConsole(updateTicket(Console, t, resolveUpdateData,
                               "resolveTicket"))
    /\ UNCHANGED << timerVars, panelVars, chartVars, debounceVars,
                    monitorVars, serverVars >>

\* The server handles the update request r at time `at`.
ServerUpdate(r, at) ==
    /\ r \in inflight
    /\ r.key = "ticket-update"
    /\ r.id \notin DOMAIN replies
    /\ LET q == params[r.id]
           o == update(store[q.ticket],
                       UpdateData(q.status, q.admin_notes, q.resolved_by), at)
       IN /\ store' = [store EXCEPT ![q.ticket] = o.ticket]
          /\ dispatched' = [dispatched EXCEPT ![q.ticket] = @ + o.dispatch]
          /\ replies' = MapSet(replies, r.id, Reply(o.code, o.ticket))
    /\ UNCHANGED listing
    /\ UNCHANGED << timerVars, requestVars, panelVars, chartVars,
                    debounceVars, monitorVars >>

\* Another operator's console has the server update ticket t.
OperatorUpdate(t, data, at) ==
    /\ LET o == update(store[t], data, at)
       IN /\ store' = [store EXCEPT ![t] = o.ticket]
          /\ dispatched' = [dispatched EXCEPT ![t] = @ + o.dispatch]
    /\ UNCHANGED << replies, listing >>
    /\ UNCHANGED << timerVars, requestVars, panelVars, chartVars,
                    debounceVars, monitorVars >>

afterUpdate_refreshAnyway(c, ok, byForm) ==
    loadTickets([c EXCEPT !.notifications =
        showNotification(@, IF byForm THEN "Ticket updated successfully!"
                            ELSE "Ticket resolved successfully!", "success")])

\* updateTicketFromForm (byForm) and resolveTicket after their await: the
\* try block continues when the update returned, the catch block runs when
\* it threw.
afterUpdate(c, ok, byForm) ==
    IF ok
    THEN loadTickets([c EXCEPT !.notifications =
            showNotification(@, IF byForm THEN "Ticket updated successfully!"
                                ELSE "Ticket resolved successfully!",
                             "success")])
    ELSE [c EXCEPT !.notifications =
            showNotification(@, IF byForm THEN "Failed to update ticket"
                                ELSE "Failed to resolve ticket", "error")]

\* The response of the update request r arrives, or (lost) the request
\* fails in the network: execute, then resolveTicket or updateTicketFromForm
\* resume.  On success the notice is shown, the modal closed (form) and the
\* ticket list reloaded; on failure the handler's own error notice follows
\* the one of ErrorHandler.handle.
UpdateArrives(r, lost) ==
    /\ r \in inflight
    /\ r.key = "ticket-update"
    /\ lost \/ r.id \in DOMAIN replies
    /\ CanNotify(2)
    /\ LET q == params[r.id]
           res == IF lost THEN [ok |-> FALSE, message |-> "Failed to fetch"]
                  ELSE request(replies[r.id])
           c == execute_settle(Console, r, res.ok, res.message)
           byForm == q.via = "updateTicketFromForm"
       IN /\ res.ok => nextReq - 3 <= MaxTicketRequests
          /\ SetConsole(afterUpdate(c, res.ok, byForm))
          /\ modal' = IF res.ok /\ byForm THEN closeModal(modal) ELSE modal
    /\ replies' = MapDelete(replies, r.id)
    /\ UNCHANGED << store, dispatched, listing >>
    /\ UNCHANGED << currentSection, hidden, unloaded, dashboardView, table, badge, pager >>
    /\ UNCHANGED << timerVars, chartVars, debounceVars, monitorVars >>

\* A list query for `page` is answered: the first query asks for page 1,
\* the later ones for any page up to the total_pages received.
FetchPage(page) ==
    /\ page \in 1..(IF listing.totalPages = 0 THEN 1 ELSE listing.totalPages)
    /\ LET res == list(listing.records, page, listing.pageSize)
       IN listing' = [listing EXCEPT !.pages = MapSet(@, page, res.items),
                                     !.totalPages = res.totalPages,
                                     !.totalCount = res.totalCount]
    /\ UNCHANGED << store, dispatched, replies >>
    /\ UNCHANGED << timerVars, requestVars, panelVars, chartVars,
                    debounceVars, monitorVars >>

\* A notification element removes itself (oldest first: all have the same
\* duration).
NotificationExpires ==
    /\ notifications # << >>
    /\ notifications' = Tail(notifications)
    /\ UNCHANGED << inflight, nextReq, loading, shown, params, currentPage, dateRange >>
    /\ UNCHANGED << timerVars, panelVars, chartVars, debounceVars,
                    monitorVars, serverVars >>

-----------------------------------------------------------------------------
(* Utils.debounce (app.js 769-779).  A debouncer is the closure state of    *)
(* one debounced handler: `timeout` (0 while undefined) and the timeouts it *)
(* has pending in the browser, each [id, deadline].                         *)

Debounced == {"searches", "clicks", "users", "tickets"}

NewDebouncer == [timeout |-> 0, pending |-> {}]

clearTimeout(pending, id) == {p \in pending : p.id # id}

executedFunction_noClear(d, id, t, w) ==
    [timeout |-> id, pending |-> d.pending \cup {[id |-> id, deadline |-> t + w]}]

\* executedFunction: clearTimeout(timeout); timeout = setTimeout(later, wait)
\* where `id` is the fresh id setTimeout returns at time t.
executedFunction(d, id, t, w) ==
    [timeout |-> id,
     pending |-> clearTimeout(d.pending, d.timeout)
                    \cup {[id |-> id, deadline |-> t + w]}]

\* later: the timeout p has elapsed; clearTimeout(timeout), then func().
later(d, p) ==
    [d EXCEPT !.pending = clearTimeout(@ \ {p}, d.timeout)]

NoEdits == [events |-> 0, calls |-> 0, answered |-> 0, lastEvent |-> 0]

TotalEvents ==
    edits["searches"].events + edits["clicks"].events
        + edits["users"].events + edits["tickets"].events

InputEvent_sharedTimeout(view) ==
    /\ TotalEvents < MaxEvents
    /\ now + wait <= MaxTime
    /\ debouncers' =
          [v \in Debounced |->
              IF v = view
              THEN executedFunction(debouncers[v], TotalEvents + 1, now, wait)
              ELSE [debouncers[v] EXCEPT !.pending = {}]]
    /\ edits' = [edits EXCEPT ![view].events = @ + 1, ![view].lastEvent = now]
    /\ UNCHANGED << now, wait >>
    /\ UNCHANGED << timerVars, requestVars, panelVars, chartVars,
                    monitorVars, serverVars >>

\* An input/change event on a filter control of `view`; the timeout it sets
\* gets a fresh id.
InputEvent(view) ==
    /\ TotalEvents < MaxEvents
    /\ now + wait <= MaxTime
    /\ debouncers' = [debouncers EXCEPT
                         ![view] = executedFunction(@, TotalEvents + 1, now, wait)]
    /\ edits' = [edits EXCEPT ![view].events = @ + 1, ![view].lastEvent = now]
    /\ UNCHANGED << now, wait >>
    /\ UNCHANGED << timerVars, requestVars, panelVars, chartVars,
                    monitorVars, serverVars >>

\* A pending timeout of the handler of `view` elapses: `later` runs and
\* calls the debounced loader (only loadTickets issues a query, the other
\* loaders are placeholders).
TimeoutFires(view, p) ==
    /\ p \in debouncers[view].pending
    /\ p.deadline <= now
    /\ debouncers' = [debouncers EXCEPT ![view] = later(@, p)]
    /\ edits' = [edits EXCEPT ![view].calls = @ + 1,
                              ![view].answered = edits[view].events]
    /\ SetConsole(IF view = "tickets" THEN loadTickets(Console) ELSE Console)
    /\ UNCHANGED << now, wait >>
    /\ UNCHANGED << timerVars, panelVars, chartVars, monitorVars, serverVars >>

\* Time passes; a timeout that is due runs before the clock moves on.
Advance ==
    /\ now < MaxTime
    /\ \A view \in Debounced :
          \A p \in debouncers[view].pending : p.deadline > now
    /\ now' = now + 1
    /\ UNCHANGED << wait, debouncers, edits >>
    /\ UNCHANGED << timerVars, requestVars, panelVars, chartVars,
                    monitorVars, serverVars >>

-----------------------------------------------------------------------------
(* ConnectionMonitor (charts.js 910-951) *)

\* 'online' event listener
OnlineEvent ==
    /\ ~navOnline
    /\ CanNotify(1)
    /\ navOnline' = TRUE
    /\ isOnline' = TRUE
    /\ notifications' =
          showNotification(notifications, "Connection restored", "success")
    /\ UNCHANGED << inflight, nextReq, loading, shown, params, currentPage, dateRange >>
    /\ UNCHANGED << timerVars, panelVars, chartVars, debounceVars,
                    serverVars >>

\* 'offline' event listener
OfflineEvent ==
    /\ navOnline
    /\ CanNotify(1)
    /\ navOnline' = FALSE
    /\ isOnline' = FALSE
    /\ notifications' =
          showNotification(notifications, "Connection lost", "warning")
    /\ UNCHANGED << inflight, nextReq, loading, shown, params, currentPage, dateRange >>
    /\ UNCHANGED << timerVars, panelVars, chartVars, debounceVars,
                    serverVars >>

ProbeTick_withLoading ==
    /\ CanIssue
    /\ SetConsole(execute_begin(Console, "health-check", TRUE))
    /\ UNCHANGED << timerVars, panelVars, chartVars, debounceVars,
                    monitorVars, serverVars >>

\* The probe interval elapses: checkConnection up to its await of
\* adminAPI.healthCheck(), which is execute(..., 'health-check', false).
ProbeTick ==
    /\ CanIssue
    /\ SetConsole(execute_begin(Console, "health-check", FALSE))
    /\ UNCHANGED << timerVars, panelVars, chartVars, debounceVars,
                    monitorVars, serverVars >>

\* The probe's interval elapses in the browser: the same, for the interval
\* created by ConnectionMonitor.init.
ProbeIntervalFires(i) ==
    /\ i \in ActiveTimers
    /\ timers[i].callback = "checkConnection"
    /\ CanIssue
    /\ lastFired' = [key |-> timers[i].key, callback |-> timers[i].callback,
                     timer |-> i]
    /\ SetConsole(execute_begin(Console, "health-check", FALSE))
    /\ UNCHANGED << autoRefresh, timers, panelVars, chartVars, debounceVars,
                    monitorVars, serverVars >>

\* checkConnection after its await: the monitor's state and notices after a
\* probe that succeeded (ok) or threw (~ok).
checkConnection(online, ns, ok) ==
    IF ok
    THEN IF ~online
         THEN [isOnline |-> TRUE,
               notifications |->
                   showNotification(ns, "Connection restored", "success")]
         ELSE [isOnline |-> online, notifications |-> ns]
    ELSE IF online
         THEN [isOnline |-> FALSE,
               notifications |->
                   showNotification(ns, "Connection issues detected", "warning")]
         ELSE [isOnline |-> online, notifications |-> ns]

\* The probe's response arrives or the probe fails: execute resumes (a
\* failure goes through ErrorHandler.handle), then checkConnection.
ProbeResult(r, ok) ==
    /\ r \in inflight
    /\ r.key = "health-check"
    /\ CanNotify(2)
    /\ LET c == execute_end(Console, r, ok)
           m == checkConnection(isOnline, c.notifications, ok)
       IN /\ SetConsole([c EXCEPT !.notifications = m.notifications])
          /\ isOnline' = m.isOnline
    /\ UNCHANGED navOnline
    /\ UNCHANGED << timerVars, panelVars, chartVars, debounceVars,
                    serverVars >>

-----------------------------------------------------------------------------
(* Initial states *)

FreshTimers ==
    /\ autoRefresh = NewAutoRefresh
    /\ timers = << >>
    /\ lastFired = NoFire

FreshRequests ==
    /\ inflight = NewConsole.inflight
    /\ nextReq = NewConsole.nextReq
    /\ loading = NewConsole.loading
    /\ shown = NewConsole.shown
    /\ notifications = NewConsole.notifications
    /\ params = NewConsole.params
    /\ currentPage = NewConsole.currentPage
    /\ dateRange = NewConsole.dateRange

FreshPanel ==
    /\ currentSection = "dashboard"
    /\ hidden = FALSE
    /\ unloaded = FALSE
    /\ table = NewTicketView.table
    /\ badge = NewTicketView.badge
    /\ pager = NewTicketView.pager
    /\ modal = NewTicketView.modal
    /\ stats = NoStats
    /\ ranking = NoRanking

FreshCharts ==
    /\ charts = NewChartManager.charts
    /\ instances = NewChartManager.instances

FreshDebounce ==
    /\ now = 0
    /\ debouncers = [view \in Debounced |-> NewDebouncer]
    /\ edits = [view \in Debounced |-> NoEdits]

\* The server holds freshly created tickets and has sent no notification.
FreshStore ==
    /\ store = [t \in TicketIds |-> NewTicket]
    /\ dispatched = [t \in TicketIds |-> 0]
    /\ replies = EmptyMap

FreshServer == FreshStore /\ listing = NewListing(0, 1)

\* The singletons right after their scripts ran, before any call.
InitServices ==
    /\ FreshTimers /\ FreshRequests /\ FreshPanel /\ FreshCharts
    /\ FreshDebounce /\ wait = 1
    /\ isOnline = TRUE /\ navOnline = TRUE
    /\ FreshServer

\* The console after `new AdminPanel()`: init() has issued the dashboard
\* query twice (loadDashboard and loadSection('dashboard')) and started the
\* two refresh timers; the page is visible.
InitConsole ==
    LET t == startAutoRefresh(NewAutoRefresh, << >>)
        c == loadSection(loadDashboard(NewConsole), "dashboard")
    IN /\ autoRefresh = t.ar
       /\ timers = t.tm
       /\ lastFired = NoFire
       /\ FreshPanel
       /\ inflight = c.inflight
       /\ nextReq = c.nextReq
       /\ loading = c.loading
       /\ shown = c.shown
       /\ notifications = c.notifications
       /\ params = c.params
       /\ currentPage = c.currentPage
       /\ dateRange = c.dateRange
       /\ FreshCharts
       /\ FreshDebounce /\ wait = 1
       /\ isOnline = TRUE /\ navOnline = TRUE
       /\ FreshServer

\* The same with the probe's interval in the browser's table: charts.js
\* constructs the ConnectionMonitor when it is loaded, before the
\* DOMContentLoaded handler constructs the AdminPanel.
InitMonitored ==
    LET t == startAutoRefresh(NewAutoRefresh, ConnectionMonitor_init(<< >>))
        c == loadSection(loadDashboard(NewConsole), "dashboard")
    IN /\ autoRefresh = t.ar
       /\ timers = t.tm
       /\ lastFired = NoFire
       /\ FreshPanel
       /\ inflight = c.inflight
       /\ nextReq = c.nextReq
       /\ loading = c.loading
       /\ shown = c.shown
       /\ notifications = c.notifications
       /\ params = c.params
       /\ currentPage = c.currentPage
       /\ dateRange = c.dateRange
       /\ FreshCharts
       /\ FreshDebounce /\ wait = 1
       /\ isOnline = TRUE /\ navOnline = TRUE
       /\ FreshServer

\* A debounced handler built with some delay; nothing typed yet.
InitDebounce ==
    /\ FreshTimers /\ FreshRequests /\ FreshPanel /\ FreshCharts
    /\ FreshDebounce /\ wait \in 1..MaxWait
    /\ isOnline = TRUE /\ navOnline = TRUE
    /\ FreshServer

\* The console state some time after construction: both dashboard queries
\* of init() were answered (no trend to draw), the operator opened the
\* Tickets section and its query (request 3) was answered.
TicketsOpened ==
    LET c0 == loadSection(loadDashboard(NewConsole), "dashboard")
        r1 == Request(1, "dashboard", TRUE)
        r2 == Request(2, "dashboard", TRUE)
        r3 == Request(3, "tickets", TRUE)
        c1 == render(execute_end(c0, r1, TRUE), r1, TRUE)
        c2 == render(execute_end(c1, r2, TRUE), r2, TRUE)
        c3 == loadSection(c2, "tickets")
    IN render(execute_end(c3, r3, TRUE), r3, TRUE)

\* The console with console state c and tickets view v, in the Tickets
\* section, its timers running, the server holding fresh tickets.
InTicketsSection(c, v) ==
    LET t == startAutoRefresh(NewAutoRefresh, << >>)
    IN /\ autoRefresh = t.ar
       /\ timers = t.tm
       /\ lastFired = NoFire
       /\ currentSection = "tickets"
       /\ hidden = FALSE
       /\ unloaded = FALSE
       /\ stats = snapshot(getDateRange.start, getDateRange.end).total_searches
       /\ ranking = NoRanking
       /\ FreshServer
       /\ table = v.table
       /\ badge = v.badge
       /\ pager = v.pager
       /\ modal = v.modal
       /\ inflight = c.inflight
       /\ nextReq = c.nextReq
       /\ loading = c.loading
       /\ shown = c.shown
       /\ notifications = c.notifications
       /\ params = c.params
       /\ currentPage = c.currentPage
       /\ dateRange = c.dateRange
       /\ FreshCharts
       /\ FreshDebounce /\ wait = 1
       /\ isOnline = TRUE /\ navOnline = TRUE

\* The Tickets section as first rendered (page 1 of `total` pages).
InitTickets ==
    \E total \in 1..MaxTotalPages :
       InTicketsSection(TicketsOpened,
           renderTickets(NewTicketView,
                         ListData([t \in TicketIds |-> NewTicket], 1, total)))

\* The operator then clicked View on the ticket, and the detail (request 4)
\* arrived: the modal shows the open ticket with its update form.
InitTicketDetail ==
    LET r4 == Request(4, "ticket-detail", TRUE)
        v == renderTickets(NewTicketView,
                           ListData([t \in TicketIds |-> NewTicket], 1, 1))
    IN InTicketsSection(
           execute_end(getTicketDetail(TicketsOpened, 1), r4, TRUE),
           [v EXCEPT !.modal = showTicketDetailModal(1, NewTicket)])

\* A list of up to MaxItems records queried with some page size.
InitList ==
    /\ FreshTimers /\ FreshRequests /\ FreshPanel /\ FreshCharts
    /\ FreshDebounce /\ wait = 1
    /\ isOnline = TRUE /\ navOnline = TRUE
    /\ FreshStore
    /\ \E n \in 0..MaxItems, pageSize \in 1..MaxPageSize :
          listing = NewListing(n, pageSize)

\* new ConnectionMonitor(): isOnline = navigator.onLine
InitMonitor ==
    /\ FreshTimers /\ FreshRequests /\ FreshPanel /\ FreshCharts
    /\ FreshDebounce /\ wait = 1
    /\ navOnline \in BOOLEAN
    /\ isOnline = navOnline
    /\ FreshServer

-----------------------------------------------------------------------------
(* The timer registry driven by arbitrary callers *)

OtherUnchangedTimers ==
    UNCHANGED << requestVars, panelVars, chartVars, debounceVars,
                 monitorVars, serverVars >>

CallStart(key, callback, interval) ==
    /\ Len(timers) < MaxTimers
    /\ LET r == start(autoRefresh, timers, key, callback, interval)
       IN /\ autoRefresh' = r.ar
          /\ timers' = r.tm
    /\ UNCHANGED lastFired
    /\ OtherUnchangedTimers

CallStop(key) ==
    /\ LET r == stop(autoRefresh, timers, key)
       IN /\ autoRefresh' = r.ar
          /\ timers' = r.tm
    /\ UNCHANGED lastFired
    /\ OtherUnchangedTimers

CallStopAll ==
    /\ LET r == stopAll(autoRefresh, timers)
       IN /\ autoRefresh' = r.ar
          /\ timers' = r.tm
    /\ UNCHANGED lastFired
    /\ OtherUnchangedTimers

CallToggle ==
    /\ LET r == toggle(autoRefresh, timers)
       IN /\ autoRefresh' = r.ar
          /\ timers' = r.tm
    /\ UNCHANGED lastFired
    /\ OtherUnchangedTimers

\* An active interval elapses and the browser runs its callback.
TimerFires(i) ==
    /\ i \in ActiveTimers
    /\ lastFired' = [key |-> timers[i].key, callback |-> timers[i].callback,
                     timer |-> i]
    /\ UNCHANGED << autoRefresh, timers >>
    /\ OtherUnchangedTimers

NextTimers ==
    \/ \E key \in RefreshKeys, callback \in Callbacks, interval \in Periods :
          CallStart(key, callback, interval)
    \/ \E key \in RefreshKeys : CallStop(key)
    \/ CallStopAll
    \/ CallToggle
    \/ \E i \in 1..MaxTimers : TimerFires(i)

SpecTimers == InitServices /\ [][NextTimers]_vars

-----------------------------------------------------------------------------
(* The loading manager driven by arbitrary callers *)

LoadingKeys == {"default", "dashboard", "searches", "clicks", "users",
                "tickets", "ticket-update"}

CallShow(key) ==
    /\ loading' = show(loading, key)
    /\ UNCHANGED << inflight, nextReq, shown, notifications, params,
                    currentPage, dateRange >>
    /\ UNCHANGED << timerVars, panelVars, chartVars, debounceVars,
                    monitorVars, serverVars >>

CallHide(key) ==
    /\ loading' = hide(loading, key)
    /\ UNCHANGED << inflight, nextReq, shown, notifications, params,
                    currentPage, dateRange >>
    /\ UNCHANGED << timerVars, panelVars, chartVars, debounceVars,
                    monitorVars, serverVars >>

CallHideAll ==
    /\ loading' = hideAll(loading)
    /\ UNCHANGED << inflight, nextReq, shown, notifications, params,
                    currentPage, dateRange >>
    /\ UNCHANGED << timerVars, panelVars, chartVars, debounceVars,
                    monitorVars, serverVars >>

NextLoading ==
    \/ \E key \in LoadingKeys : CallShow(key)
    \/ \E key \in LoadingKeys : CallHide(key)
    \/ CallHideAll

SpecLoading == InitServices /\ [][NextLoading]_vars

-----------------------------------------------------------------------------
(* The chart manager driven by arbitrary callers *)

ChartCanvases == {"seven-day-chart", "thirty-day-chart", "partner-chart"}

CallCreateChart(canvasId, found, built) ==
    /\ Len(instances) < MaxCharts
    /\ SetChartManager(createChart(ChartManagerState, canvasId, found, built))
    /\ UNCHANGED << timerVars, requestVars, panelVars, debounceVars,
                    monitorVars, serverVars >>

\* createPartnerChart(data), called with any list: the chart is drawn on
\* the canvas 'partner-chart' when that element exists.
CallCreatePartnerChart(data, found) ==
    /\ Len(instances) < MaxCharts
    /\ SetChartManager(createChart(ChartManagerState, "partner-chart", found,
                                   TRUE))
    /\ ranking' = IF found THEN [ranking EXCEPT !.chart = sortedData(data)]
                  ELSE ranking
    /\ UNCHANGED << timerVars, requestVars, currentSection, hidden, unloaded,
                    stats, ticketView, debounceVars, monitorVars, serverVars >>

CallDestroyChart(canvasId) ==
    /\ SetChartManager(destroyChart(ChartManagerState, canvasId))
    /\ UNCHANGED << timerVars, requestVars, panelVars, debounceVars,
                    monitorVars, serverVars >>

CallDestroyAllCharts ==
    /\ SetChartManager(destroyAllCharts(ChartManagerState))
    /\ UNCHANGED << timerVars, requestVars, panelVars, debounceVars,
                    monitorVars, serverVars >>

NextCharts ==
    \/ \E canvasId \in ChartCanvases, found \in BOOLEAN, built \in BOOLEAN :
          CallCreateChart(canvasId, found, built)
    \/ \E canvasId \in ChartCanvases : CallDestroyChart(canvasId)
    \/ CallDestroyAllCharts

SpecCharts == InitServices /\ [][NextCharts]_vars

-----------------------------------------------------------------------------
(* The console while it stays visible: sections, queries and their        *)
(* responses, refresh ticks                                                 *)

NextConsole ==
    \/ \E section \in Sections : SwitchSection(section)
    \/ ApplyDateFilter(getDateRange.start, getDateRange.end)
    \/ \E i \in 1..(2 * (MaxRestarts + 1)) : AutoRefreshTick(i)
    \/ \E r \in inflight, ok \in BOOLEAN, drawn \in SUBSET DashboardCanvases,
             total \in 1..MaxTotalPages :
          ResponseArrives(r, ok, drawn, total, << >>)
    \/ NotificationExpires

SpecConsole == InitConsole /\ [][NextConsole]_vars

-----------------------------------------------------------------------------
(* Auto-refresh while queries fail: the operator moves between sections,    *)
(* the timers tick, and each query is answered or fails (no trend to draw)  *)

NextRefresh ==
    \/ \E section \in Sections : SwitchSection(section)
    \/ \E i \in 1..(2 * (MaxRestarts + 1)) : AutoRefreshTick(i)
    \/ \E r \in inflight, ok \in BOOLEAN, total \in 1..MaxTotalPages :
          ResponseArrives(r, ok, {}, total, << >>)
    \/ NotificationExpires

SpecRefresh == InitConsole /\ [][NextRefresh]_vars

-----------------------------------------------------------------------------
(* The date filter: the operator applies date ranges, in either order or    *)
(* with a bound left empty, and each query is answered or fails             *)

NextDates ==
    \/ \E startDate, endDate \in DateInputs :
          /\ nextReq - 2 <= MaxDateQueries
          /\ ApplyDateFilter(startDate, endDate)
    \/ \E r \in inflight, ok \in BOOLEAN :
          ResponseArrives(r, ok, {}, 1, << >>)
    \/ NotificationExpires

\* The dashboard as first rendered: the two queries of init() were answered
\* (no trend to draw, no partner yet).
InitDashboard ==
    LET t == startAutoRefresh(NewAutoRefresh, << >>)
        c0 == loadSection(loadDashboard(NewConsole), "dashboard")
        r1 == Request(1, "dashboard", TRUE)
        r2 == Request(2, "dashboard", TRUE)
        c1 == render(execute_end(c0, r1, TRUE), r1, TRUE)
        c == render(execute_end(c1, r2, TRUE), r2, TRUE)
    IN /\ autoRefresh = t.ar
       /\ timers = t.tm
       /\ lastFired = NoFire
       /\ currentSection = "dashboard"
       /\ hidden = FALSE
       /\ unloaded = FALSE
       /\ stats = snapshot(getDateRange.start, getDateRange.end).total_searches
       /\ ranking = NoRanking
       /\ table = NewTicketView.table
       /\ badge = NewTicketView.badge
       /\ pager = NewTicketView.pager
       /\ modal = NewTicketView.modal
       /\ inflight = c.inflight
       /\ nextReq = c.nextReq
       /\ loading = c.loading
       /\ shown = c.shown
       /\ notifications = c.notifications
       /\ params = c.params
       /\ currentPage = c.currentPage
       /\ dateRange = c.dateRange
       /\ FreshCharts
       /\ FreshDebounce /\ wait = 1
       /\ isOnline = TRUE /\ navOnline = TRUE
       /\ FreshServer

SpecDates == InitDashboard /\ [][NextDates]_vars

-----------------------------------------------------------------------------
(* The top partners on screen: the table filled from the responses to the   *)
(* queries of init(), the partner chart drawn by a caller of                *)
(* createPartnerChart                                                       *)

NextRanking ==
    \/ \E r \in inflight, ok \in BOOLEAN, top_partners \in RankedLists :
          ResponseArrives(r, ok, {}, 1, top_partners)
    \/ \E data \in PartnerLists, found \in BOOLEAN :
          CallCreatePartnerChart(data, found)
    \/ NotificationExpires

SpecRanking == InitConsole /\ [][NextRanking]_vars

-----------------------------------------------------------------------------
(* Failing queries: the operator moves between the two sections that load  *)
(* data, and each query is answered or fails in one of the ways a wrapped   *)
(* call can fail                                                            *)

NextFailures ==
    \/ \E section \in RefreshKeys : SwitchSection(section)
    \/ \E r \in inflight, failure \in Failures : RequestFails(r, failure)
    \/ \E r \in inflight : ResponseArrives(r, TRUE, {}, 1, << >>)
    \/ NotificationExpires

SpecFailures == InitConsole /\ [][NextFailures]_vars

-----------------------------------------------------------------------------
(* The console hidden and shown again: visibility events, refresh ticks and *)
(* navigation while the queries issued are still awaiting their responses   *)

NextVisibility ==
    \/ \E isHidden \in BOOLEAN : VisibilityChange(isHidden)
    \/ \E i \in 1..(2 * (MaxRestarts + 1)) : AutoRefreshTick(i)
    \/ \E section \in Sections : SwitchSection(section)

SpecVisibility == InitConsole /\ [][NextVisibility]_vars

-----------------------------------------------------------------------------
(* The console, left on the dashboard, from its construction to the unload  *)
(* of the page: once the page is unloaded none of its handlers runs and no  *)
(* response is delivered to it.                                             *)

NextTeardown ==
    \/ ~unloaded /\ \E isHidden \in BOOLEAN : VisibilityChange(isHidden)
    \/ \E i \in 1..(2 * (MaxRestarts + 1)) : AutoRefreshTick(i)
    \/ ~unloaded /\
          \E r \in inflight, drawn \in SUBSET DashboardCanvases :
              ResponseArrives(r, TRUE, drawn, 1, << >>)
    \/ BeforeUnload

SpecTeardown == InitConsole /\ [][NextTeardown]_vars

-----------------------------------------------------------------------------
(* The Tickets section in use: ticket details, the update form, the Resolve *)
(* button, the server handling the updates, a second operator, and the      *)
(* reloads of the list                                                      *)

\* Updates another operator's console can send.
OperatorData ==
    {UpdateData("in-progress", "", ""), UpdateData("resolved", "", "bob"),
     resolveUpdateData}

NextTickets ==
    \/ \E t \in TicketIds : ViewTicketDetail(t)
    \/ \E r \in inflight, ok \in BOOLEAN : DetailArrives(r, ok)
    \/ CloseModal
    \/ \E status \in Statuses, admin_notes \in NoteTexts,
          resolved_by \in NameTexts :
          SubmitForm(status, admin_notes, resolved_by)
    \/ \E t \in TicketIds : ClickResolve(t)
    \/ \E r \in inflight, at \in Stamps : ServerUpdate(r, at)
    \/ \E t \in TicketIds, data \in OperatorData, at \in Stamps :
          OperatorUpdate(t, data, at)
    \/ \E r \in inflight, lost \in BOOLEAN : UpdateArrives(r, lost)
    \/ \E r \in inflight, ok \in BOOLEAN, total \in 1..MaxTotalPages :
          ResponseArrives(r, ok, {}, total, << >>)
    \/ NotificationExpires

SpecTickets == InitTickets /\ [][NextTickets]_vars

-----------------------------------------------------------------------------
(* Resolving from the tickets table: Resolve clicks of this operator, the   *)
(* server handling updates of this and of another operator, the responses   *)
(* and the reloads of the list                                              *)

NextResolve ==
    \/ \E t \in TicketIds : ClickResolve(t)
    \/ \E r \in inflight, at \in Stamps : ServerUpdate(r, at)
    \/ \E t \in TicketIds, data \in OperatorData, at \in Stamps :
          OperatorUpdate(t, data, at)
    \/ \E r \in inflight, lost \in BOOLEAN : UpdateArrives(r, lost)
    \/ \E r \in inflight, ok \in BOOLEAN, total \in 1..MaxTotalPages :
          ResponseArrives(r, ok, {}, total, << >>)
    \/ NotificationExpires

SpecResolve == InitTickets /\ [][NextResolve]_vars

-----------------------------------------------------------------------------
(* Updating from the detail form and from the table while the modal shows   *)
(* the ticket: submits, Resolve clicks, the server handling them and the    *)
(* updates of another operator, the responses and the reloads of the list   *)

NextUpdate ==
    \/ \E status \in Statuses, admin_notes \in NoteTexts,
          resolved_by \in NameTexts :
          SubmitForm(status, admin_notes, resolved_by)
    \/ \E t \in TicketIds : ClickResolve(t)
    \/ \E r \in inflight, at \in Stamps : ServerUpdate(r, at)
    \/ \E t \in TicketIds, data \in OperatorData, at \in Stamps :
          OperatorUpdate(t, data, at)
    \/ \E r \in inflight, lost \in BOOLEAN : UpdateArrives(r, lost)
    \/ \E r \in inflight, ok \in BOOLEAN, total \in 1..MaxTotalPages :
          ResponseArrives(r, ok, {}, total, << >>)
    \/ NotificationExpires

SpecUpdate == InitTicketDetail /\ [][NextUpdate]_vars

-----------------------------------------------------------------------------
(* Paging through the list views from the rendered Tickets section: prev    *)
(* and next clicks, and the tickets responses that update the pager         *)

NextPaging ==
    \/ \E view \in ListViews : PrevClick(view)
    \/ \E view \in ListViews : NextClick(view)
    \/ \E r \in inflight, ok \in BOOLEAN, total \in 1..MaxTotalPages :
          ResponseArrives(r, ok, {}, total, << >>)
    \/ NotificationExpires

SpecPaging == InitTickets /\ [][NextPaging]_vars

-----------------------------------------------------------------------------
(* A list walked page by page while its data is unchanged *)

NextList == \E page \in 1..MaxItems + 1 : FetchPage(page)

SpecList == InitList /\ [][NextList]_vars

-----------------------------------------------------------------------------
(* The debounced filter handlers under a clock *)

NextDebounce ==
    \/ \E view \in Debounced : InputEvent(view)
    \/ \E view \in Debounced :
          \E p \in debouncers[view].pending : TimeoutFires(view, p)
    \/ Advance

SpecDebounce == InitDebounce /\ [][NextDebounce]_vars

\* The browser runs a due timeout and time does not stop.
FairDebounce ==
    /\ SpecDebounce
    /\ WF_vars(Advance)
    /\ \A view \in Debounced :
          WF_vars(\E p \in debouncers[view].pending : TimeoutFires(view, p))

-----------------------------------------------------------------------------
(* The connectivity monitor: environment events and liveness probes *)

NextMonitor ==
    \/ OnlineEvent
    \/ OfflineEvent
    \/ ProbeTick
    \/ \E r \in inflight, ok \in BOOLEAN : ProbeResult(r, ok)
    \/ NotificationExpires

SpecMonitor == InitMonitor /\ [][NextMonitor]_vars

-----------------------------------------------------------------------------
(* Liveness probes while the queries of init() are awaiting their responses *)

NextProbe ==
    \/ ProbeTick
    \/ \E r \in inflight, ok \in BOOLEAN : ProbeResult(r, ok)
    \/ \E r \in inflight, ok \in BOOLEAN :
          ResponseArrives(r, ok, {}, 1, << >>)
    \/ NotificationExpires

SpecProbe == InitConsole /\ [][NextProbe]_vars

-----------------------------------------------------------------------------
(* The console hidden, shown, switched off and unloaded while the probe's   *)
(* interval runs beside the registry's: once the page is unloaded none of   *)
(* its callbacks runs                                                       *)

NextBackground ==
    \/ ~unloaded /\ \E isHidden \in BOOLEAN : VisibilityChange(isHidden)
    \/ ~unloaded /\ CallToggle
    \/ BeforeUnload
    \/ ~unloaded /\ \E i \in 1..(2 * MaxRestarts + 3) : ProbeIntervalFires(i)
    \/ ~unloaded /\ \E i \in 1..(2 * MaxRestarts + 3) : AutoRefreshTick(i)
    \/ ~unloaded /\ \E r \in inflight, ok \in BOOLEAN : ProbeResult(r, ok)
    \/ ~unloaded /\ \E r \in inflight : ResponseArrives(r, TRUE, {}, 1, << >>)
    \/ NotificationExpires

SpecBackground == InitMonitored /\ [][NextBackground]_vars

-----------------------------------------------------------------------------
(* Properties *)

LiveTimersOf(key) == {i \in ActiveTimers : timers[i].key = key}

PendingWithLoading == {r \in inflight : r.showLoading}

(* C1: for every key at most one interval created by the registry for that *)
(* key is active, and it is the one recorded in `intervals` under that key; *)
(* a tick therefore runs the callback of the latest start for its key.      *)
OneTimerPerKey ==
    /\ \A key \in RefreshKeys :
          /\ Cardinality(LiveTimersOf(key)) <= 1
          /\ \A i \in LiveTimersOf(key) :
                /\ key \in DOMAIN autoRefresh.intervals
                /\ autoRefresh.intervals[key] = i
    /\ lastFired.timer # 0 /\ timers[lastFired.timer].active
          => /\ lastFired.key \in DOMAIN autoRefresh.intervals
             /\ autoRefresh.intervals[lastFired.key] = lastFired.timer

\* "tickets" was started twice with different intervals: the first interval
\* is cleared, the second is the active one and has ticked.
StartedTwice ==
    \E i, j \in 1..Len(timers) :
        /\ i < j
        /\ timers[i].key = "tickets" /\ timers[j].key = "tickets"
        /\ timers[i].interval # timers[j].interval
        /\ ~timers[i].active /\ timers[j].active
        /\ lastFired.timer = j

(* C2: the overlay is visible if and only if the set of in-flight keys is   *)
(* non-empty.                                                               *)
VisibleIffKeys == OverlayVisible <=> loading.loadingStates # {}

\* show() has acted: a key is in flight and the overlay is visible.
OneKeyRemains ==
    /\ loading.loadingStates = {"tickets"}
    /\ OverlayVisible

(* C3: when a request settles while a request of another loading key is     *)
(* still pending, the overlay stays visible.                                *)
OtherViewKeepsOverlay ==
    [][\A r \in PendingWithLoading :
          (r \notin inflight' /\
           \E q \in PendingWithLoading : q \in inflight' /\ q.key # r.key)
          => (loading'.overlay /\ loading'.display = "flex")]_vars

(* C4: the overlay is visible whenever a request issued with showLoading    *)
(* is still in flight.                                                      *)
VisibleWhilePending == PendingWithLoading # {} => OverlayVisible

(* C8: a response that arrives while its view is not the current section    *)
(* is discarded: it does not change what that view renders.                 *)
StaleResponseDiscarded ==
    [][\A v \in RefreshKeys : currentSection # v => shown'[v] = shown[v]]_vars

(* C9: while the console is hidden no registry timer is active; while it is *)
(* visible the 'dashboard' and 'tickets' timers are active, exactly one     *)
(* each, with the callback and period startAutoRefresh gives them.          *)
TimersFollowVisibility ==
    /\ hidden => ActiveTimers = {}
    /\ ~hidden =>
          /\ \A key \in RefreshKeys : Cardinality(LiveTimersOf(key)) = 1
          /\ \A i \in ActiveTimers :
                /\ timers[i].key \in DOMAIN autoRefresh.intervals
                /\ autoRefresh.intervals[timers[i].key] = i
                /\ timers[i].callback =
                      (IF timers[i].key = "dashboard"
                       THEN "refreshDashboard" ELSE "refreshTickets")
                /\ timers[i].interval =
                      (IF timers[i].key = "dashboard"
                       THEN DASHBOARD_INTERVAL ELSE TICKETS_INTERVAL)

\* The timers were resumed by a 'visible' event (intervals 3 and 4), one of
\* them ticked, and a 'hidden' event then suspended them.
SuspendedAfterResume ==
    /\ hidden
    /\ Len(timers) = 4
    /\ ActiveTimers = {}
    /\ lastFired.timer \in {3, 4}

\* An event that no call has answered yet keeps its timeout pending, and the
\* clock does not pass `wait` after it without the call.
CallStillDue ==
    \A view \in Debounced :
       /\ edits[view].answered <= edits[view].events
       /\ edits[view].answered < edits[view].events =>
             /\ debouncers[view].pending # {}
             /\ now <= edits[view].lastEvent + wait

\* A call of a debounced function is never made by an input event; it is
\* made `wait` after the last event of its view, and only when that event
\* was not answered by a call before.
CallOnlyAtTrailingEdge ==
    \A view \in Debounced :
       edits'[view].calls # edits[view].calls =>
          /\ edits'[view].calls = edits[view].calls + 1
          /\ edits'[view].events = edits[view].events
          /\ edits[view].answered < edits[view].events
          /\ now = edits[view].lastEvent + wait

\* The edits have stopped and every burst got its call.
AllAnswered ==
    \A view \in Debounced :
       /\ debouncers[view].pending = {}
       /\ edits[view].answered = edits[view].events

(* C5: debouncing is trailing-edge: a burst of input events causes exactly  *)
(* one call, `wait` after its last event, none at the first event or        *)
(* between events; and once the edits stop the call is eventually made.     *)
DebounceTrailingEdge ==
    /\ []CallStillDue
    /\ [][CallOnlyAtTrailingEdge]_vars
    /\ <>[]AllAnswered

\* A burst of three edits of the ticket filters, the last of them later than
\* the first, was answered by a single call.
BurstOfThreeOneCall ==
    /\ edits["tickets"].events = 3
    /\ edits["tickets"].calls = 1
    /\ edits["tickets"].answered = 3
    /\ edits["tickets"].lastEvent > 0

(* C6: every change of the monitor's online/offline state adds exactly one  *)
(* notice.                                                                  *)
OneNoticePerTransition ==
    [][isOnline' # isOnline =>
          Len(notifications') = Len(notifications) + 1]_vars

(* C7: an event or probe result that leaves the monitor's online/offline    *)
(* state unchanged adds no notice.                                          *)
NoNoticeWithoutTransition ==
    [][isOnline' = isOnline =>
          Len(notifications') <= Len(notifications)]_vars

(* C10: each canvas has at most one chart that was constructed and not      *)
(* destroyed, and it is the chart registered for that canvas in the         *)
(* manager's map.                                                           *)
OneChartPerCanvas ==
    \A canvasId \in ChartCanvases :
       /\ Cardinality(LiveChartsOf(canvasId)) <= 1
       /\ \A i \in LiveChartsOf(canvasId) :
             /\ canvasId \in DOMAIN charts
             /\ charts[canvasId] = i

\* createChart ran twice for one canvas: the first chart is destroyed, the
\* second is live and registered.
ChartReplaced ==
    \E i, j \in 1..Len(instances) :
        /\ i < j
        /\ instances[i].canvas = "seven-day-chart"
        /\ instances[j].canvas = "seven-day-chart"
        /\ instances[i].destroyed /\ ~instances[j].destroyed
        /\ charts["seven-day-chart"] = j

Issued == DOMAIN params' \ DOMAIN params

ByOperator(q) == q.via \in {"updateTicketFromForm", "resolveTicket"}

\* The status displayed by the control that issues an update: the modal's
\* badge for the form, the table row for the Resolve button.
StatusShown(q) ==
    IF q.via = "updateTicketFromForm" THEN modal.status ELSE table[q.ticket]

(* C12: no update request issued through the detail form or the Resolve     *)
(* button asks a ticket shown as in-progress to go back to open, and none   *)
(* is issued for a ticket shown as resolved.                                *)
NoRegressionAsked ==
    [][\A id \in Issued :
          ByOperator(params'[id]) =>
             /\ StatusShown(params'[id]) # "resolved"
             /\ StatusShown(params'[id]) = "in-progress" =>
                    params'[id].status # "open"]_vars

(* C13: every update request the console issues with status=resolved        *)
(* carries a non-empty resolved_by.                                         *)
ResolvedByCarried ==
    [][\A id \in Issued :
          ByOperator(params'[id]) /\ params'[id].status = "resolved" =>
             params'[id].resolved_by # ""]_vars

\* The update requests the server answers in the step.
Answered == DOMAIN replies' \ DOMAIN replies

\* The notices the step adds.
NewNotices ==
    IF Len(notifications') > Len(notifications)
    THEN {notifications'[i] : i \in Len(notifications) + 1..Len(notifications')}
    ELSE {}

ResolvedComplete(ticket) ==
    ticket.status = "resolved" =>
        ticket.resolved_by # "" /\ ticket.resolved_at # 0

(* C14: a resolved ticket always has resolved_by and resolved_at; an update  *)
(* asking a resolved ticket to become open is answered 409 with the detail  *)
(* InvalidTransitionError and leaves the ticket as it is, and the console   *)
(* receives that answer as a thrown error: the detail is shown as an error  *)
(* notice, no success notice is shown and no reload is issued.              *)
ResolvedIsFinal ==
    [][/\ \A t \in TicketIds :
             ResolvedComplete(store[t]) /\ ResolvedComplete(store'[t])
       /\ \A id \in Answered :
             store[params[id].ticket].status = "resolved"
                /\ params[id].status = "open" =>
                /\ replies'[id].code = 409
                /\ replies'[id].detail = "InvalidTransitionError"
                /\ store' = store
                /\ dispatched' = dispatched
       /\ \A r \in inflight :
             (/\ r.id \in DOMAIN replies
              /\ replies[r.id].code = 409
              /\ UpdateArrives(r, FALSE)) =>
                /\ [message |-> replies[r.id].detail, type |-> "error"]
                      \in NewNotices
                /\ \A n \in NewNotices : n.type = "error"
                /\ Issued = {}]_vars

\* The server has refused to reopen the resolved ticket, for a submit of the
\* form that still shows it as open, and the response is on its way.
ReopenRefused ==
    \E id \in DOMAIN replies :
       /\ id \in DOMAIN params
       /\ params[id].status = "open"
       /\ params[id].via = "updateTicketFromForm"
       /\ modal.status = "open"
       /\ replies[id].code = 409
       /\ replies[id].ticket.status = "resolved"
       /\ store[params[id].ticket] = replies[id].ticket

(* C15: of the updates racing to resolve one open ticket exactly one        *)
(* performs the status change: an update asking for resolved with a         *)
(* resolved_by, handled while the ticket is not resolved, resolves it and   *)
(* dispatches once; handled when the ticket is already resolved it changes  *)
(* nothing, dispatches nothing and is answered 409 or, with 200, the        *)
(* already-resolved record.  No ticket has more than one dispatch attempt.  *)
OneResolveWins ==
    [][/\ \A t \in TicketIds : dispatched[t] <= 1 /\ dispatched'[t] <= 1
       /\ \A id \in Answered :
             LET q == params[id]
                 was == store[q.ticket]
             IN q.status = "resolved" /\ q.resolved_by # "" =>
                   IF was.status = "resolved"
                   THEN /\ store' = store
                        /\ dispatched' = dispatched
                        /\ \/ replies'[id].code = 409
                           \/ /\ replies'[id].code = 200
                              /\ replies'[id].ticket = was
                   ELSE /\ store'[q.ticket].status = "resolved"
                        /\ dispatched'[q.ticket] = dispatched[q.ticket] + 1
                        /\ replies'[id].code = 200]_vars

\* Resolve was clicked twice before the first response: the server has
\* answered both requests with the resolved ticket, after one dispatch.
DoubleClickOneDispatch ==
    /\ Cardinality(DOMAIN replies) = 2
    /\ \A id \in DOMAIN replies :
          /\ id \in DOMAIN params
          /\ params[id].via = "resolveTicket"
          /\ replies[id].code = 200
          /\ replies[id].ticket = store[1]
    /\ store[1].status = "resolved"
    /\ dispatched[1] = 1

\* The view a refresh timer reloads.
ViewOf(i) ==
    IF timers[i].callback = "refreshDashboard" THEN "dashboard" ELSE "tickets"

(* C16: a failed dashboard or tickets query adds an error notice and leaves  *)
(* the refresh registry and its timers as they are; and whenever the timer  *)
(* of the current view ticks, failures before it or not, the query of that  *)
(* view is issued again.                                                    *)
FailureShownAndRetried ==
    [][/\ \A r \in inflight :
             r.key \in RefreshKeys /\ ResponseArrives(r, FALSE, {}, 1, << >>) =>
                /\ \E n \in NewNotices : n.type = "error"
                /\ UNCHANGED << autoRefresh, timers >>
       /\ \A i \in ActiveTimers :
             AutoRefreshTick(i) /\ ViewOf(i) = currentSection =>
                \E q \in inflight' \ inflight :
                   q.key = currentSection /\ q.id = nextReq]_vars

\* Both dashboard queries of init() failed, nothing was ever rendered, the
\* failure is on display and the dashboard timer has issued the query again.
FailedThenRetried ==
    /\ currentSection = "dashboard"
    /\ shown["dashboard"] = 0
    /\ \E i \in DOMAIN notifications : notifications[i].type = "error"
    /\ lastFired.key = "dashboard"
    /\ inflight = {Request(3, "dashboard", TRUE)}

\* The update requests settled by the step.
Settled == {r \in inflight \ inflight' : r.key = "ticket-update"}

Succeeds(r) ==
    /\ r.id \in DOMAIN replies
    /\ replies[r.id].code = 200
    /\ UpdateArrives(r, FALSE)

(* C17: the step in which resolveTicket or updateTicketFromForm sends the    *)
(* update issues nothing else; the reload of the ticket list is issued only *)
(* by the step in which an update returns successfully, together with the   *)
(* success notice; when the update fails no query is issued and the notices *)
(* added are error notices.                                                 *)
RefreshAfterSuccess ==
    [][/\ \A id \in Issued : ByOperator(params'[id]) => Issued = {id}
       /\ \A id \in Issued :
             params'[id].via = "loadTickets" => \E r \in Settled : Succeeds(r)
       /\ \A r \in Settled :
             IF Succeeds(r)
             THEN /\ \E id \in Issued :
                        Issued = {id} /\ params'[id].via = "loadTickets"
                  /\ \A n \in NewNotices : n.type = "success"
                  /\ NewNotices # {}
             ELSE /\ Issued = {}
                  /\ \A n \in NewNotices : n.type = "error"
                  /\ NewNotices # {}]_vars

\* The form's update was refused by the server (status resolved, resolved-by
\* cleared): both error notices are shown, the modal is still open and no
\* request followed the update.
FailedWithoutReload ==
    /\ modal.open
    /\ notifications =
          << [message |-> "ValidationError", type |-> "error"],
             [message |-> "Failed to update ticket", type |-> "error"] >>
    /\ nextReq = 6
    /\ inflight = {}
    /\ shown["tickets"] = 3

\* The pages 1..n received, one after the other.
RECURSIVE Concat(_, _)
Concat(pages, n) ==
    IF n = 0 THEN << >> ELSE Concat(pages, n - 1) \o pages[n]

\* The least k >= 1 with k * pageSize >= count.
CeilPages(count, pageSize) ==
    CHOOSE k \in 1..count + 1 :
       /\ k * pageSize >= count
       /\ k = 1 \/ (k - 1) * pageSize < count

(* C18: the totalPages of a list response is max(1, ceil(totalCount /       *)
(* pageSize)), and once every page 1..totalPages was received, the pages    *)
(* put one after the other hold totalCount items, every record of the list  *)
(* once.                                                                    *)
PagesCoverList ==
    listing.totalPages # 0 =>
       /\ listing.totalCount = Len(listing.records)
       /\ listing.totalPages =
             CeilPages(listing.totalCount, listing.pageSize)
       /\ DOMAIN listing.pages = 1..listing.totalPages =>
             LET all == Concat(listing.pages, listing.totalPages)
             IN /\ Len(all) = listing.totalCount
                /\ \A i, j \in DOMAIN all : all[i] = all[j] => i = j
                /\ all = listing.records

\* Every page of a list was received, three or more, the last one not full.
WalkedPartialLastPage ==
    /\ listing.totalPages >= 3
    /\ DOMAIN listing.pages = 1..listing.totalPages
    /\ Len(listing.pages[listing.totalPages]) < listing.pageSize
    /\ Len(listing.pages[listing.totalPages]) > 0

(* C19: for searches, clicks, users and tickets the page held in            *)
(* currentPage is an integer >= 1 after any prev and next clicks, and so is *)
(* the page every list query asks for.                                      *)
PagesFromOne ==
    /\ \A view \in ListViews :
          currentPage[view] \in Nat /\ currentPage[view] >= 1
    /\ \A id \in DOMAIN params :
          params[id].via = "loadTickets" =>
             params[id].page \in Nat /\ params[id].page >= 1

\* Prev was clicked on page 2 of the tickets (the pager still shows page 2
\* while the query for page 1 is in flight), and the other views were paged
\* forward.
BackToPageOne ==
    /\ currentPage["tickets"] = 1
    /\ pager.page = 2
    /\ \E id \in DOMAIN params : params[id].page = 1
    /\ currentPage["searches"] = 1
    /\ currentPage["clicks"] = 2
    /\ currentPage["users"] = MaxPage

(* C20: while the console is visible, every tick of the dashboard timer     *)
(* issues a dashboard query and every tick of the tickets timer issues a    *)
(* tickets query, whichever section is displayed.                           *)
EveryTickQueries ==
    [][\A i \in ActiveTimers :
          ~hidden /\ AutoRefreshTick(i) =>
             \E q \in inflight' \ inflight : q.key = ViewOf(i)]_vars

\* An event or a call of one view leaves the debouncer of every other view,
\* with its pending timeout and deadline, as it is.
OtherViewsUntouched ==
    \A view \in Debounced :
       edits'[view] # edits[view] =>
          \A other \in Debounced \ {view} :
             /\ debouncers'[other] = debouncers[other]
             /\ edits'[other] = edits[other]

\* The timeout pending for a view is the one set by that view's last event,
\* due `wait` after it, whatever happened in the other views since.
PendingNotPostponed ==
    \A view \in Debounced :
       /\ edits[view].calls <= edits[view].events
       /\ edits[view].answered < edits[view].events =>
             \E p \in debouncers[view].pending :
                /\ p.id = debouncers[view].timeout
                /\ p.deadline = edits[view].lastEvent + wait

\* Every view that was edited has had its call and has nothing pending.
EveryViewCalled ==
    \A view \in Debounced :
       /\ debouncers[view].pending = {}
       /\ edits[view].events > 0 => edits[view].calls > 0
       /\ edits[view].answered = edits[view].events

-----------------------------------------------------------------------------
\* The query of request id asks for a range whose start is later than its end.
Reversed(id) ==
    /\ params[id].via = "loadDashboard"
    /\ params[id].end_date # NoDate
    /\ params[id].start_date > params[id].end_date

\* applyDateFilter sends the two inputs as they are.
DatesSentAsEntered ==
    nextReq' = nextReq + 1 =>
       /\ params'[nextReq].via = "loadDashboard"
       /\ params'[nextReq].start_date = dateRange'.start
       /\ params'[nextReq].end_date = dateRange'.end

\* The answer to a reversed query is the snapshot of the swapped range, and
\* raises no notice.
ReversedAnswered ==
    \A r \in inflight :
       Reversed(r.id) /\ ResponseArrives(r, TRUE, {}, 1, << >>) =>
          /\ stats' = SearchesIn(params[r.id].end_date, params[r.id].start_date)
          /\ shown'["dashboard"] = r.id
          /\ notifications' = notifications

(* C22: a dashboard query issued by applyDateFilter with a start date later *)
(* than the end date is evaluated over the swapped range: its response is   *)
(* a snapshot of the days from the end date to the start date, not an error *)
ReversedRangeSwapped == [][DatesSentAsEntered /\ ReversedAnswered]_vars

\* The last query was issued for the range MaxDay..2 as entered, and its
\* answer, the total of the days 2..MaxDay, is what the dashboard shows.
ReversedRangeShown ==
    /\ dateRange = [start |-> MaxDay, end |-> 2]
    /\ shown["dashboard"] = nextReq - 1
    /\ nextReq > 3
    /\ stats = SearchesIn(2, MaxDay)

-----------------------------------------------------------------------------
(* C23: the partner ranking on screen, table and chart, is in ranking       *)
(* order (descending by clicks, equal clicks by name ascending) and has at  *)
(* most TOP_N entries, whatever list it was made from                       *)
RankingShown ==
    /\ Ranked(ranking.table) /\ Len(ranking.table) <= TOP_N
    /\ Ranked(ranking.chart) /\ Len(ranking.chart) <= TOP_N

-----------------------------------------------------------------------------
\* The message shown for a failure: the detail of the response, else the
\* HTTP status line, else the message of the network error, else a default.
Shown(failure) ==
    CASE failure = "detail" -> "InvalidTransitionError"
      [] failure = "status" -> "HTTP error! status"
      [] failure = "network" -> "Failed to fetch"
      [] failure = "empty" -> "An unexpected error occurred"

\* The caller of execute got the error: its view is not rendered.
Propagated(r) ==
    /\ r \notin inflight'
    /\ shown' = shown
    /\ panelVars' = panelVars

(* C24: every failure of a wrapped API call adds one error notice whose     *)
(* message is not empty (the detail, else the status line, else a default)  *)
(* and the error still reaches the caller, which renders nothing            *)
FailureNoticed ==
    [][\A r \in inflight, failure \in Failures :
          RequestFails(r, failure) =>
             /\ notifications' =
                   Append(notifications,
                          [message |-> Shown(failure), type |-> "error"])
             /\ notifications'[Len(notifications')].message # ""
             /\ Propagated(r)]_vars

DefaultMessageShown ==
    /\ notifications # << >>
    /\ notifications[Len(notifications)] =
          [message |-> "An unexpected error occurred", type |-> "error"]
    /\ inflight = {}

-----------------------------------------------------------------------------
\* A wrapped call that settles takes its loading key out of the set.
KeyRemovedOnSettle ==
    \A r \in PendingWithLoading :
       r \notin inflight' => r.key \notin loading'.loadingStates

\* Nothing in flight: no loading key is left and the overlay is hidden.
IdleIsClear ==
    inflight = {} => loading.loadingStates = {} /\ ~OverlayVisible

(* C26: the loading key added by execute is removed when the call settles,  *)
(* by a result or by a throw; whenever no wrapped request is in flight the  *)
(* key set is empty and the overlay hidden                                  *)
LoadingReleased == [][KeyRemovedOnSettle]_vars /\ []IdleIsClear

\* Every query issued has settled, the last one by a throw.
AllSettledAfterThrow ==
    /\ inflight = {}
    /\ nextReq > 3
    /\ notifications # << >>
    /\ loading.loadingStates = {}
    /\ loading.display = "none"

-----------------------------------------------------------------------------
(* C25: of two queries of the same view in flight, the one issued last is   *)
(* the one displayed in the end whatever the order of the responses: a view *)
(* showing the response to one query never goes back to the response to a   *)
(* query issued before it                                                   *)
LatestRequestWins ==
    [][\A v \in RefreshKeys : shown'[v] >= shown[v]]_vars

-----------------------------------------------------------------------------
(* C29: a tickets query never asks for a page beyond the total_pages of the *)
(* most recent tickets response                                             *)
PageWithinTotal ==
    \A id \in DOMAIN params :
       params[id].via = "loadTickets" => params[id].page <= pager.totalPages

-----------------------------------------------------------------------------
\* While the registry is disabled it records no interval and none is active.
DisabledHoldsNone ==
    ~autoRefresh.enabled =>
       /\ DOMAIN autoRefresh.intervals = {}
       /\ ActiveTimers = {}

\* start() while disabled does nothing, and toggle() back to enabled starts
\* nothing.
DisabledStartsNone ==
    /\ \A key \in RefreshKeys, callback \in Callbacks, interval \in Periods :
          ~autoRefresh.enabled /\ CallStart(key, callback, interval) =>
             UNCHANGED << autoRefresh, timers >>
    /\ ~autoRefresh.enabled /\ CallToggle =>
          /\ autoRefresh'.enabled
          /\ autoRefresh'.intervals = EmptyMap
          /\ timers' = timers

(* C27: whenever AutoRefresh.enabled is false the registry holds no active  *)
(* timer: toggle() to disabled cancels every timer, start() is a no-op      *)
(* while disabled, and toggle() back to enabled restarts none               *)
NoTimerWhileDisabled == []DisabledHoldsNone /\ [][DisabledStartsNone]_vars

\* Two timers were started and toggle() cancelled both.
ToggledOff ==
    /\ ~autoRefresh.enabled
    /\ Len(timers) >= 2
    /\ \E i, j \in 1..Len(timers) : timers[i].key # timers[j].key
    /\ ActiveTimers = {}

\* The registry entry and the timers of `key` are as they were.
KeyUntouched(key) ==
    /\ key \in DOMAIN autoRefresh'.intervals
           <=> key \in DOMAIN autoRefresh.intervals
    /\ key \in DOMAIN autoRefresh.intervals =>
          autoRefresh'.intervals[key] = autoRefresh.intervals[key]
    /\ \A i \in 1..Len(timers) :
          timers[i].key = key => timers'[i] = timers[i]

(* C28: start(key) and stop(key) cancel only the timer of that key: the     *)
(* timers of the other keys keep their registry entry, interval, callback   *)
(* and stay active                                                          *)
KeysIndependent ==
    [][\A key \in RefreshKeys :
          (\/ CallStop(key)
           \/ \E callback \in Callbacks, interval \in Periods :
                 CallStart(key, callback, interval))
          => \A other \in RefreshKeys \ {key} : KeyUntouched(other)]_vars

\* The 'tickets' timer was restarted while the 'dashboard' timer, started
\* before it, is still active and has fired since.
RestartedBesideOther ==
    /\ Len(timers) = 3
    /\ timers[1].key = "dashboard" /\ timers[1].active
    /\ timers[2].key = "tickets" /\ ~timers[2].active
    /\ timers[3].key = "tickets" /\ timers[3].active
    /\ lastFired.timer = 1

-----------------------------------------------------------------------------
(* C30: the connectivity probe leaves the loading state as it is: issuing   *)
(* it adds no loading key and does not show the overlay, its result or      *)
(* failure removes no key and does not hide the overlay                     *)
ProbeLeavesLoading ==
    [][(\/ ProbeTick
        \/ \E r \in inflight, ok \in BOOLEAN : ProbeResult(r, ok))
       => loading' = loading]_vars

\* A probe was issued and has settled while a dashboard query is in flight:
\* the overlay is still shown for that query.
ProbedWhileLoading ==
    /\ nextReq > 3
    /\ \A r \in inflight : r.key = "dashboard"
    /\ inflight # {}
    /\ loading.loadingStates = {"dashboard"}
    /\ OverlayVisible

-----------------------------------------------------------------------------
\* The probe's interval is not recorded in the registry and is active,
\* whatever was called on the registry.
ProbeIntervalKept ==
    /\ ProbeTimers # {}
    /\ ProbeTimers \subseteq ActiveTimers
    /\ \A key \in DOMAIN autoRefresh.intervals :
          autoRefresh.intervals[key] \notin ProbeTimers

\* While the console is hidden a probe can be issued.
ProbePossibleWhileHidden ==
    hidden /\ ~unloaded /\ CanIssue =>
       ENABLED (\E i \in 1..(2 * MaxRestarts + 3) : ProbeIntervalFires(i))

\* A probe failing while the console is hidden raises its notices: the one
\* of ErrorHandler.handle and, if the monitor was online, its warning.
HiddenProbeNoticed ==
    \A r \in inflight :
       hidden /\ isOnline /\ ProbeResult(r, FALSE) =>
          /\ Len(notifications') = Len(notifications) + 2
          /\ notifications'[Len(notifications')] =
                [message |-> "Connection issues detected", type |-> "warning"]
          /\ ~isOnline'

(* C31: the probe's interval is outside the timer registry: stopAll (on     *)
(* hide and on unload) and toggle do not cancel it, so while the console is *)
(* hidden probes are still issued and their failures still raise notices    *)
ProbeOutsideRegistry ==
    /\ [](ProbeIntervalKept /\ ProbePossibleWhileHidden)
    /\ [][HiddenProbeNoticed]_vars

\* Hidden, every registry timer cleared: the probe's interval has fired and
\* the failure of the probe was noticed.
ProbedWhileHidden ==
    /\ hidden /\ ~unloaded
    /\ ActiveTimers = ProbeTimers
    /\ lastFired.callback = "checkConnection"
    /\ ~isOnline
    /\ notifications # << >>
    /\ notifications[Len(notifications)].message = "Connection issues detected"

=============================================================================
